---- MODULE Spec2Model ----
(***************************************************************************)
(* Model of the deterministic fusion-and-scoring core of the DDR report    *)
(* generator: merger.py, temperature_analysis.py, clustering.py,           *)
(* urgency.py, confidence.py, driven in the order of pipeline.run_pipeline.*)
(*                                                                         *)
(* Python str values are TLA+ strings, handled character by character      *)
(* (strip, lower, slicing, split, substring search).  A dict is a function *)
(* from its keys to its values; a key the dict lacks is outside DOMAIN.    *)
(* Python's None is the value None below.                                  *)
(***************************************************************************)
EXTENDS Integers, Sequences, FiniteSets, TLC

(***************************************************************************)
(* Python values                                                           *)
(***************************************************************************)
\* None; no string of the input alphabets contains "<".
None == "<None>"

\* A falsy dict-or-None argument (None or {}): the code tests such arguments
\* for truthiness only ("if not data", "if not temperature_analysis").
NoData == [x \in {} |-> x]

\* dict.get(k, default)
Get(d, k, default) == IF k \in DOMAIN d THEN d[k] ELSE default

\* d[k] = v on a dict
Put(d, k, v) == [x \in (DOMAIN d) \cup {k} |-> IF x = k THEN v ELSE d[x]]

\* truthiness of a str-or-None value
Truthy(x) == x # None /\ x # ""

\* Python's  x or y  on str-or-None values
Or(x, y) == IF Truthy(x) THEN x ELSE y

Min(a, b) == IF a < b THEN a ELSE b
Max(a, b) == IF a > b THEN a ELSE b
Abs(a) == IF a < 0 THEN -a ELSE a

\* a local variable: Body applied to the value of e, which is computed once
Local(e, Body(_)) == CHOOSE r \in {Body(v) : v \in {e}} : TRUE

(***************************************************************************)
(* str operations                                                          *)
(***************************************************************************)
Char(s, i) == SubSeq(s, i, i)

\* s[:n]
Prefix(s, n) == SubSeq(s, 1, Min(n, Len(s)))

\* s[n:] for n >= 0 (0-based start)
Suffix(s, n) == SubSeq(s, n + 1, Len(s))

IsSpace(c) == c \in {" ", "\t", "\n"}

LowerChar(c) ==
  CASE c = "A" -> "a" [] c = "B" -> "b" [] c = "C" -> "c" [] c = "D" -> "d"
    [] c = "E" -> "e" [] c = "F" -> "f" [] c = "G" -> "g" [] c = "H" -> "h"
    [] c = "I" -> "i" [] c = "J" -> "j" [] c = "K" -> "k" [] c = "L" -> "l"
    [] c = "M" -> "m" [] c = "N" -> "n" [] c = "O" -> "o" [] c = "P" -> "p"
    [] c = "Q" -> "q" [] c = "R" -> "r" [] c = "S" -> "s" [] c = "T" -> "t"
    [] c = "U" -> "u" [] c = "V" -> "v" [] c = "W" -> "w" [] c = "X" -> "x"
    [] c = "Y" -> "y" [] c = "Z" -> "z" [] OTHER -> c

UpperChar(c) ==
  CASE c = "a" -> "A" [] c = "b" -> "B" [] c = "c" -> "C" [] c = "d" -> "D"
    [] c = "e" -> "E" [] c = "f" -> "F" [] c = "g" -> "G" [] c = "h" -> "H"
    [] c = "i" -> "I" [] c = "j" -> "J" [] c = "k" -> "K" [] c = "l" -> "L"
    [] c = "m" -> "M" [] c = "n" -> "N" [] c = "o" -> "O" [] c = "p" -> "P"
    [] c = "q" -> "Q" [] c = "r" -> "R" [] c = "s" -> "S" [] c = "t" -> "T"
    [] c = "u" -> "U" [] c = "v" -> "V" [] c = "w" -> "W" [] c = "x" -> "X"
    [] c = "y" -> "Y" [] c = "z" -> "Z" [] OTHER -> c

RECURSIVE LowerRange(_, _, _)
\* s[i-1:j].lower(), one half of the range after the other
LowerRange(s, i, j) ==
  IF i > j THEN ""
  ELSE IF i = j THEN LowerChar(Char(s, i))
  ELSE LowerRange(s, i, (i + j) \div 2) \o LowerRange(s, (i + j) \div 2 + 1, j)

\* str.lower()
Lower(s) == Local(s, LAMBDA t : LowerRange(t, 1, Len(t)))

RECURSIVE UpperRange(_, _, _)
UpperRange(s, i, j) ==
  IF i > j THEN ""
  ELSE IF i = j THEN UpperChar(Char(s, i))
  ELSE UpperRange(s, i, (i + j) \div 2) \o UpperRange(s, (i + j) \div 2 + 1, j)

\* str.upper()
Upper(s) == Local(s, LAMBDA t : UpperRange(t, 1, Len(t)))

\* the number of leading whitespace characters of s
LeadingSpaces(s) ==
  CHOOSE n \in 0..Len(s) :
    /\ \A i \in 1..n : IsSpace(Char(s, i))
    /\ n = Len(s) \/ ~IsSpace(Char(s, n + 1))

\* the number of trailing whitespace characters of s
TrailingSpaces(s) ==
  CHOOSE n \in 0..Len(s) :
    /\ \A i \in 1..n : IsSpace(Char(s, Len(s) + 1 - i))
    /\ n = Len(s) \/ ~IsSpace(Char(s, Len(s) - n))

\* str.lstrip()
LStrip(s) == Local(s, LAMBDA t : Suffix(t, LeadingSpaces(t)))

\* str.rstrip()
RStrip(s) == Local(s, LAMBDA t : Prefix(t, Len(t) - TrailingSpaces(t)))

\* str.strip()
Strip(s) == RStrip(LStrip(s))

\* needle in hay
Contains(hay, needle) ==
  \E h \in {hay}, n \in {needle} :
    \E i \in 0..(Len(h) - Len(n)) : SubSeq(h, i + 1, i + Len(n)) = n

RECURSIVE WordEnd(_, _)
\* the last position of the run of non-space characters of s that holds position i
WordEnd(s, i) == IF i < Len(s) /\ ~IsSpace(Char(s, i + 1)) THEN WordEnd(s, i + 1) ELSE i

\* the maximal runs of non-space characters of s
WordsOf(s) ==
  {SubSeq(s, i, WordEnd(s, i)) :
     i \in {j \in 1..Len(s) : ~IsSpace(Char(s, j)) /\ (j = 1 \/ IsSpace(Char(s, j - 1)))}}

\* set(s.split())
Words(s) == Local(s, WordsOf)

(***************************************************************************)
(* merger.py                                                               *)
(***************************************************************************)
PrefixLen == 50
MinSharedWords == 3

normalize_area(area) ==
  IF ~Truthy(area) \/ Strip(area) = "" THEN "Area not specified"
  ELSE Lower(Strip(area))

\* the value sliced by [:50] in observations_similar
SimilarKeyRaw(obs) == Or(Get(obs, "issue_type", None), Get(obs, "description", ""))

SimilarKey(obs) == Lower(Prefix(SimilarKeyRaw(obs), PrefixLen))

\* observations_similar raises TypeError when it slices None
observations_similar_raises(obs1, obs2) ==
  /\ normalize_area(Get(obs1, "area", "")) = normalize_area(Get(obs2, "area", ""))
  /\ (SimilarKeyRaw(obs1) = None \/ SimilarKeyRaw(obs2) = None)

\* OverlapAbove with the threshold at one half
OverlapAbove_half(words1, words2) ==
  /\ words1 # {} /\ words2 # {}
  /\ 10 * Cardinality(words1 \cap words2)
       > 5 * Max(Cardinality(words1), Cardinality(words2))

\* OverlapAbove with the shared words counted against the union of the sets
OverlapAbove_union(words1, words2) ==
  /\ words1 # {} /\ words2 # {}
  /\ 10 * Cardinality(words1 \cap words2) > 3 * Cardinality(words1 \cup words2)

\* overlap > 0.3 with overlap = |w1 & w2| / max(|w1|, |w2|), 0 if a set is empty
OverlapAbove(words1, words2) ==
  /\ words1 # {} /\ words2 # {}
  /\ 10 * Cardinality(words1 \cap words2)
       > 3 * Max(Cardinality(words1), Cardinality(words2))

\* observations_similar deciding on the area alone
observations_similar_same_area(obs1, obs2) ==
  normalize_area(Get(obs1, "area", "")) = normalize_area(Get(obs2, "area", ""))

observations_similar(obs1, obs2) ==
  LET a1 == normalize_area(Get(obs1, "area", ""))
      a2 == normalize_area(Get(obs2, "area", ""))
      t1 == SimilarKey(obs1)
      t2 == SimilarKey(obs2)
  IN  IF a1 # a2 THEN FALSE
      ELSE IF t1 = "" \/ t2 = "" THEN a1 = a2
      ELSE \/ OverlapAbove(Words(t1), Words(t2))
           \/ Contains(t2, t1)
           \/ Contains(t1, t2)

\* (d.get(k) or "").strip()
StrippedField(d, k) == Strip(Or(Get(d, k, None), ""))

MergeDescription(seen, new) ==
  LET desc_seen == StrippedField(seen, "description")
      desc_new == StrippedField(new, "description")
  IN  IF desc_new # "" /\ desc_new # desc_seen
      THEN IF desc_seen # ""
           THEN Put(seen, "description", desc_seen \o ". Thermal/Inspection: " \o desc_new)
           ELSE Put(seen, "description", desc_new)
      ELSE seen

MergeIssueType(seen, new) ==
  LET it_seen == StrippedField(seen, "issue_type")
      it_new == StrippedField(new, "issue_type")
  IN  IF it_new # ""
      THEN IF it_seen # "" /\ Lower(it_new) # Lower(it_seen)
           THEN Put(seen, "issue_type", it_seen \o "; " \o it_new)
           ELSE IF it_seen = "" THEN Put(seen, "issue_type", it_new)
           ELSE seen
      ELSE seen

MergeSource(seen, new) ==
  LET src_seen == StrippedField(seen, "source")
      src_new == StrippedField(new, "source")
  IN  IF src_new # "" /\ ~Contains(src_seen, src_new)
      THEN Put(seen, "source", IF src_seen # "" THEN src_seen \o "; " \o src_new ELSE src_new)
      ELSE seen

\* the value of seen after _merge_observations(seen, new)
_merge_observations(seen, new) ==
  MergeSource(MergeIssueType(MergeDescription(seen, new), new), new)

_has_conflict(a, b) ==
  LET desc_a == StrippedField(a, "description")
      desc_b == StrippedField(b, "description")
  IN  IF desc_a = "" \/ desc_b = "" THEN FALSE
      ELSE /\ desc_a # desc_b
           /\ Cardinality(Words(desc_a) \cap Words(desc_b)) < MinSharedWords


\* Sequence helpers
RECURSIVE FirstIndex(_, _, _)
\* least i >= from with P[i], or 0; P is a sequence of booleans
FirstIndex(P, from, n) ==
  IF from > n THEN 0 ELSE IF P[from] THEN from ELSE FirstIndex(P, from + 1, n)

\* index of the first seen entry on which the scan of add_observations stops:
\* the first one for which observations_similar raises or returns True
FirstHit(obs, seen) ==
  FirstIndex([j \in 1..Len(seen) |->
                observations_similar_raises(obs, seen[j]) \/ observations_similar(obs, seen[j])],
             1, Len(seen))

Conflict(seen, obs) ==
  [type |-> "observation",
   observation_1 |-> seen,
   observation_2 |-> obs,
   message |-> "Conflicting descriptions for same area - both recorded."]

\* caller_observation when the loop labels the caller's dict itself
caller_observation_labelled(obs0, source_label) == Put(obs0, "source", source_label)

\* The caller's dict obs0 after one iteration of the loop of add_observations:
\* obs is rebound to dict(obs) before the label is written, and every later
\* write goes to that copy or to a seen entry, which is such a copy too.
caller_observation(obs0, source_label) == obs0

\* add_observation with the conflict recorded and the fields combined all the same
add_observation_folding(seen_obs, confl, obs0, source_label) ==
  LET obs == Put(obs0, "source", source_label)
      j == FirstHit(obs, seen_obs)
  IN  IF j = 0
      THEN [seen |-> Append(seen_obs, obs), conflicts |-> confl, raised |-> FALSE]
      ELSE IF observations_similar_raises(obs, seen_obs[j])
      THEN [seen |-> seen_obs, conflicts |-> confl, raised |-> TRUE]
      ELSE [seen |-> [seen_obs EXCEPT ![j] = _merge_observations(seen_obs[j], obs)],
            conflicts |-> IF _has_conflict(obs, seen_obs[j])
                          THEN Append(confl, Conflict(seen_obs[j], obs)) ELSE confl,
            raised |-> FALSE]

\* add_observation with a source label of the extractor kept when there is one
add_observation_keep_source(seen_obs, confl, obs0, source_label) ==
  LET obs == Put(obs0, "source", Get(obs0, "source", source_label))
      j == FirstHit(obs, seen_obs)
  IN  IF j = 0
      THEN [seen |-> Append(seen_obs, obs), conflicts |-> confl, raised |-> FALSE]
      ELSE IF observations_similar_raises(obs, seen_obs[j])
      THEN [seen |-> seen_obs, conflicts |-> confl, raised |-> TRUE]
      ELSE IF _has_conflict(obs, seen_obs[j])
      THEN [seen |-> seen_obs,
            conflicts |-> Append(confl, Conflict(seen_obs[j], obs)),
            raised |-> FALSE]
      ELSE [seen |-> [seen_obs EXCEPT ![j] = _merge_observations(seen_obs[j], obs)],
            conflicts |-> confl,
            raised |-> FALSE]

\* add_observation with a conflicting observation kept as a canonical
\* observation of its own besides the Conflict record
add_observation_keep_both(seen_obs, confl, obs0, source_label) ==
  LET obs == Put(obs0, "source", source_label)
      j == FirstHit(obs, seen_obs)
  IN  IF j = 0
      THEN [seen |-> Append(seen_obs, obs), conflicts |-> confl, raised |-> FALSE]
      ELSE IF observations_similar_raises(obs, seen_obs[j])
      THEN [seen |-> seen_obs, conflicts |-> confl, raised |-> TRUE]
      ELSE IF _has_conflict(obs, seen_obs[j])
      THEN [seen |-> Append(seen_obs, obs),
            conflicts |-> Append(confl, Conflict(seen_obs[j], obs)),
            raised |-> FALSE]
      ELSE [seen |-> [seen_obs EXCEPT ![j] = _merge_observations(seen_obs[j], obs)],
            conflicts |-> confl,
            raised |-> FALSE]

\* add_observation resolving the observation against the last similar seen entry
add_observation_last_match(seen_obs, confl, obs0, source_label) ==
  LET obs == Put(obs0, "source", source_label)
      hits == {i \in 1..Len(seen_obs) :
                 observations_similar_raises(obs, seen_obs[i]) \/ observations_similar(obs, seen_obs[i])}
      j == IF hits = {} THEN 0 ELSE CHOOSE i \in hits : \A h \in hits : h <= i
  IN  IF j = 0
      THEN [seen |-> Append(seen_obs, obs), conflicts |-> confl, raised |-> FALSE]
      ELSE IF observations_similar_raises(obs, seen_obs[j])
      THEN [seen |-> seen_obs, conflicts |-> confl, raised |-> TRUE]
      ELSE IF _has_conflict(obs, seen_obs[j])
      THEN [seen |-> seen_obs,
            conflicts |-> Append(confl, Conflict(seen_obs[j], obs)),
            raised |-> FALSE]
      ELSE [seen |-> [seen_obs EXCEPT ![j] = _merge_observations(seen_obs[j], obs)],
            conflicts |-> confl,
            raised |-> FALSE]

\* recorded_conflicts when a Conflict holds the seen dict itself, so that a
\* later combination into that dict shows in observation_1
recorded_conflicts_aliased(confl, seen_entry, combined) ==
  [c \in 1..Len(confl) |->
     IF confl[c].observation_1 = seen_entry
     THEN [confl[c] EXCEPT !.observation_1 = combined]
     ELSE confl[c]]

\* The recorded conflicts after _merge_observations has changed the dict
\* seen_entry into combined: observation_1 is dict(seen), a copy made when the
\* Conflict was recorded, and observation_2 is a dict that is in no list.
recorded_conflicts(confl, seen_entry, combined) == confl

\* One iteration of the loop of add_observations on the raw observation obs0:
\* the new values of seen_observations (and merged["observations"], which holds
\* the same dict objects) and conflicts, and whether a TypeError was raised.
add_observation(seen_obs, confl, obs0, source_label) ==
  LET obs == Put(obs0, "source", source_label)
      j == FirstHit(obs, seen_obs)
  IN  IF j = 0
      THEN [seen |-> Append(seen_obs, obs), conflicts |-> confl, raised |-> FALSE]
      ELSE IF observations_similar_raises(obs, seen_obs[j])
      THEN [seen |-> seen_obs, conflicts |-> confl, raised |-> TRUE]
      ELSE IF _has_conflict(obs, seen_obs[j])
      THEN [seen |-> seen_obs,
            conflicts |-> Append(confl, Conflict(seen_obs[j], obs)),
            raised |-> FALSE]
      ELSE [seen |-> [seen_obs EXCEPT ![j] = _merge_observations(seen_obs[j], obs)],
            conflicts |-> recorded_conflicts(confl, seen_obs[j],
                                             _merge_observations(seen_obs[j], obs)),
            raised |-> FALSE]

RECURSIVE DedupFrom(_, _, _)
\* list(dict.fromkeys(xs)) from position i on, acc being the keys so far
DedupFrom(xs, i, acc) ==
  IF i > Len(xs) THEN acc
  ELSE IF \E m \in 1..Len(acc) : acc[m] = xs[i]
       THEN DedupFrom(xs, i + 1, acc)
       ELSE DedupFrom(xs, i + 1, Append(acc, xs[i]))

\* [str(x) for x in xs if x]
Truthies(xs) == SelectSeq(xs, Truthy)

\* DedupNotes without the removal of duplicates
DedupNotes_keep_all(xs) == Truthies(xs)

\* list(dict.fromkeys(str(x) for x in xs if x))
DedupNotes(xs) == DedupFrom(Truthies(xs), 1, <<>>)

\* data.get(key, []) of an extraction, [] when the extraction is falsy
ListOf(data, key) == IF data = NoData THEN <<>> ELSE Get(data, key, <<>>)

StripAll(xs) == [m \in 1..Len(xs) |-> Strip(xs[m])]

\* the severities list built by merge_extractions
MergeSeverities(insp, therm) ==
  DedupFrom(SelectSeq(StripAll(ListOf(insp, "severity_mentions")
                               \o ListOf(therm, "severity_mentions")),
                      LAMBDA s : s # ""),
            1, <<>>)


(***************************************************************************)
(* temperature_analysis.py                                                 *)
(*                                                                         *)
(* TLA+ strings are ASCII: the degree sign is written "^" and the en dash  *)
(* "~".  A float is an exact fixed-point integer: a parsed value counts    *)
(* half thousandths of a degree (the midpoint of a range of values with    *)
(* three decimals), a Celsius value counts 1/36000 degree, so that         *)
(* (v - 32) * 5 / 9 and the mean of two values are exact.  An optional     *)
(* float is a sequence of length 0 (None) or 1.  round(x, 2) yields        *)
(* hundredths, ties to even.                                               *)
(***************************************************************************)
Deg == "^"
EnDash == "~"
\* value units per degree: half thousandths
ValueUnitsPerDegree == 2 * 1000
\* Celsius units per degree, per hundredth of a degree Celsius and per
\* hundredth of a degree Fahrenheit (a Fahrenheit degree is 5/9 Celsius degree)
CelsiusUnitsPerDegree == 18 * ValueUnitsPerDegree
UnitsPerHundredthC == CelsiusUnitsPerDegree \div 100
UnitsPerHundredthF == (5 * CelsiusUnitsPerDegree) \div (9 * 100)
\* DEFAULT_ANOMALY_THRESHOLD_C = 5.0, in Celsius units
DEFAULT_ANOMALY_THRESHOLD_C == 5 * CelsiusUnitsPerDegree

IsDigit(c) == c \in {"0", "1", "2", "3", "4", "5", "6", "7", "8", "9"}

DigitVal(c) ==
  CASE c = "0" -> 0 [] c = "1" -> 1 [] c = "2" -> 2 [] c = "3" -> 3 [] c = "4" -> 4
    [] c = "5" -> 5 [] c = "6" -> 6 [] c = "7" -> 7 [] c = "8" -> 8 [] c = "9" -> 9

RECURSIVE DigitsEnd(_, _)
\* the position after the run of digits of s that starts at position i
DigitsEnd(s, i) == IF i <= Len(s) /\ IsDigit(Char(s, i)) THEN DigitsEnd(s, i + 1) ELSE i

RECURSIVE IntUpTo(_, _)
\* the value of the first n digits of ds
IntUpTo(ds, n) == IF n = 0 THEN 0 ELSE 10 * IntUpTo(ds, n - 1) + DigitVal(Char(ds, n))

\* the value of a string of digits ("" is 0)
IntOf(ds) == Local(ds, LAMBDA t : IntUpTo(t, Len(t)))

\* the fraction .ds in thousandths (the inputs have at most three decimals)
FracThousandths(ds) == IntOf(Prefix(ds \o "000", 3))

\* float(u) for u of the form digits*.?digits*, in value units
UnsignedFloatOf(u) ==
  LET e == DigitsEnd(u, 1)
  IN  (1000 * IntOf(Prefix(u, e - 1))
         + (IF e <= Len(u) THEN FracThousandths(Suffix(u, e)) ELSE 0))
        * (ValueUnitsPerDegree \div 1000)

\* float(t) for t of the form -?digits*.?digits*, in value units
FloatOf(t) ==
  Local(t, LAMBDA v : IF Len(v) > 0 /\ Char(v, 1) = "-"
                      THEN -UnsignedFloatOf(Suffix(v, 1))
                      ELSE UnsignedFloatOf(v))

\* u matches \d*\.?\d+ entirely
IsUnsignedRangeNumber(u) ==
  /\ Len(u) > 0
  /\ IsDigit(Char(u, Len(u)))
  /\ \E e \in {DigitsEnd(u, 1)} :
       \E v \in {IF e <= Len(u) /\ Char(u, e) = "." THEN Suffix(u, e) ELSE Suffix(u, e - 1)} :
         DigitsEnd(v, 1) = Len(v) + 1

\* t matches -?\d*\.?\d+ entirely
IsRangeNumber(t) ==
  \E u \in {IF Len(t) > 0 /\ Char(t, 1) = "-" THEN Suffix(t, 1) ELSE t} :
    IsUnsignedRangeNumber(u)

\* re.sub(r"<deg>[CFcf]?\s*$", "", s) on a stripped s
StripDegree(s) ==
  IF Len(s) >= 1 /\ Char(s, Len(s)) = Deg THEN Prefix(s, Len(s) - 1)
  ELSE IF Len(s) >= 2 /\ Char(s, Len(s) - 1) = Deg /\ Char(s, Len(s)) \in {"C", "F", "c", "f"}
       THEN Prefix(s, Len(s) - 2)
       ELSE s

\* the positions of the dash at which ^N\s*[dash]\s*N$ matches s
RangeSplits(s) ==
  {d \in 1..Len(s) :
     /\ Char(s, d) \in {"-", EnDash}
     /\ IsRangeNumber(RStrip(Prefix(s, d - 1)))
     /\ IsRangeNumber(LStrip(Suffix(s, d)))}

\* the start of the leftmost match of -?\d+\.?\d* in s, or 0
NumberStart(s) ==
  LET starts == {i \in 1..Len(s) :
                   \/ IsDigit(Char(s, i))
                   \/ (Char(s, i) = "-" /\ i < Len(s) /\ IsDigit(Char(s, i + 1)))}
  IN  IF starts = {} THEN 0 ELSE CHOOSE i \in starts : \A j \in starts : i <= j

\* the text of the match of -?\d+\.?\d* that starts at position i of s
NumberMatch(s, i) ==
  LET e == DigitsEnd(s, IF Char(s, i) = "-" THEN i + 1 ELSE i)
  IN  SubSeq(s, i, (IF e <= Len(s) /\ Char(s, e) = "." THEN DigitsEnd(s, e + 1) ELSE e) - 1)

\* the value of the range whose dash is at position d of s: (lo + hi) / 2.0
RangeMidpoint(s, d) ==
  (FloatOf(RStrip(Prefix(s, d - 1))) + FloatOf(LStrip(Suffix(s, d)))) \div 2

\* the two searches of _parse_value on the string s left by the substitution
ParseNumber(s) ==
  LET splits == RangeSplits(s)
  IN  IF splits # {} THEN <<RangeMidpoint(s, CHOOSE d \in splits : TRUE)>>
      ELSE Local(NumberStart(s),
                 LAMBDA i : IF i # 0 THEN <<FloatOf(NumberMatch(s, i))>> ELSE <<>>)

\* _parse_value(raw): <<>> for None, <<v>> for the float v
_parse_value(raw) ==
  IF raw = None THEN <<>>
  ELSE Local(Strip(raw),
             LAMBDA s : IF s = "" THEN <<>> ELSE Local(Strip(StripDegree(s)), ParseNumber))

\* "F" in (unit or "").strip().upper().replace(<deg>, "")
IsFahrenheit(unit) == Contains(Upper(Strip(Or(unit, ""))), "F")

\* _normalize_to_celsius(value, unit): value units to Celsius units
_normalize_to_celsius(value, unit) ==
  IF IsFahrenheit(unit)
  THEN (value - 32 * ValueUnitsPerDegree) * 5 * (CelsiusUnitsPerDegree \div (9 * ValueUnitsPerDegree))
  ELSE value * (CelsiusUnitsPerDegree \div ValueUnitsPerDegree)

\* the integer nearest to n / d (d > 0), ties to even
RoundHalfEven(n, d) ==
  LET q == n \div d
      r == n - q * d
  IN  IF 2 * r < d THEN q
      ELSE IF 2 * r > d THEN q + 1
      ELSE IF q % 2 = 0 THEN q ELSE q + 1

\* round(_celsius_to_original(value_c, unit), 2) in hundredths of the unit
RoundedOriginal(value_c, unit) ==
  IF IsFahrenheit(unit)
  THEN RoundHalfEven(value_c + 32 * 100 * UnitsPerHundredthF, UnitsPerHundredthF)
  ELSE RoundHalfEven(value_c, UnitsPerHundredthC)

\* round(_celsius_to_original(reference_c + delta_c, unit)
\*       - _celsius_to_original(reference_c, unit), 2) in hundredths of the unit
RoundedDelta(delta_c, unit) ==
  IF IsFahrenheit(unit)
  THEN RoundHalfEven(delta_c, UnitsPerHundredthF)
  ELSE RoundHalfEven(delta_c, UnitsPerHundredthC)

\* sorted(xs): position i holds the value of rank i, equal values side by side
Sorted(xs) ==
  [i \in 1..Len(xs) |->
     xs[CHOOSE m \in 1..Len(xs) :
          Cardinality({j \in 1..Len(xs) : xs[j] < xs[m] \/ (xs[j] = xs[m] /\ j < m)}) = i - 1]]

\* the unit a reading is analysed in: (t.get("unit") or <deg>C).strip() or <deg>C
ReadingUnit(t) ==
  LET u == Strip(Or(Get(t, "unit", None), Deg \o "C"))
  IN  IF u = "" THEN Deg \o "C" ELSE u

\* one iteration of the parsing loop: the entry appended for t, if any
ParsedReading(t) ==
  Local(_parse_value(Get(t, "value", None)),
        LAMBDA val : IF val = <<>> THEN <<>>
                     ELSE Local(ReadingUnit(t),
                                LAMBDA unit : <<[location |-> Get(t, "location", ""),
                                                 value |-> val[1],
                                                 unit |-> unit,
                                                 value_c |-> _normalize_to_celsius(val[1], unit)]>>))

RECURSIVE ParsedFrom(_, _)
\* the entries appended for readings i, i+1, ...
ParsedFrom(temperatures, i) ==
  IF i > Len(temperatures) THEN <<>>
  ELSE ParsedReading(temperatures[i]) \o ParsedFrom(temperatures, i + 1)

\* the parsed list: the readings whose value parses
ParsedReadings(temperatures) == ParsedFrom(temperatures, 1)

\* ReferenceC without the sort
ReferenceC_unsorted(values_c) ==
  LET n == Len(values_c)
  IN  IF n % 2 = 1 THEN values_c[n \div 2 + 1]
      ELSE (values_c[n \div 2] + values_c[n \div 2 + 1]) \div 2

\* the median of a sorted list
MiddleOf(values_sorted) ==
  LET n == Len(values_sorted)
  IN  IF n % 2 = 1 THEN values_sorted[n \div 2 + 1]
      ELSE (values_sorted[n \div 2] + values_sorted[n \div 2 + 1]) \div 2

\* the median step: values_sorted, n, reference_c
ReferenceC(values_c) == Local(Sorted(values_c), MiddleOf)

NoAnalysis == [reference_value |-> <<>>, reference_unit |-> None, readings |-> <<>>]

\* IsAnomaly with the threshold itself counted as an anomaly
IsAnomaly_inclusive(delta_c, anomaly_threshold_c) == Abs(delta_c) >= anomaly_threshold_c

\* IsAnomaly without the absolute value
IsAnomaly_signed(delta_c, anomaly_threshold_c) == delta_c > anomaly_threshold_c

\* abs(delta_c) > anomaly_threshold_c
IsAnomaly(delta_c, anomaly_threshold_c) == Abs(delta_c) > anomaly_threshold_c

\* the entry of the readings list for the parsed reading p
AnalysedReading(p, reference_c, anomaly_threshold_c) ==
  Local(p.value_c - reference_c,
        LAMBDA delta_c : [location |-> p.location,
                          value |-> p.value,
                          unit |-> p.unit,
                          delta |-> RoundedDelta(delta_c, p.unit),
                          delta_c |-> RoundHalfEven(delta_c, UnitsPerHundredthC),
                          anomaly |-> IsAnomaly(delta_c, anomaly_threshold_c)])

\* the result for a non-empty parsed list
AnalysisOf(parsed, anomaly_threshold_c) ==
  Local(ReferenceC([i \in 1..Len(parsed) |-> parsed[i].value_c]),
        LAMBDA reference_c :
          [reference_value |-> <<RoundedOriginal(reference_c, parsed[1].unit)>>,
           reference_unit |-> parsed[1].unit,
           readings |-> [i \in 1..Len(parsed) |->
                           AnalysedReading(parsed[i], reference_c, anomaly_threshold_c)]])

compute_temperature_analysis(temperatures, anomaly_threshold_c) ==
  IF Len(temperatures) = 0 THEN NoAnalysis
  ELSE Local(ParsedReadings(temperatures),
             LAMBDA parsed : IF Len(parsed) = 0 THEN NoAnalysis
                             ELSE AnalysisOf(parsed, anomaly_threshold_c))

(***************************************************************************)
(* clustering.py                                                           *)
(***************************************************************************)
\* clustering._normalize
cluster_normalize(s) ==
  IF ~Truthy(s) \/ Strip(s) = "" THEN "unspecified" ELSE Lower(Strip(s))

\* obs.get("description", "")[:50] raises TypeError on a None description
cluster_key_raises(obs) ==
  ~Truthy(Get(obs, "issue_type", None)) /\ Get(obs, "description", "") = None

\* cluster_key grouping by area alone
cluster_key_area_only(obs) == cluster_normalize(Get(obs, "area", "")) \o "|"

\* the grouping key of an observation
cluster_key(obs) ==
  cluster_normalize(Get(obs, "area", "")) \o "|"
    \o cluster_normalize(Or(Get(obs, "issue_type", None),
                            Prefix(Get(obs, "description", ""), PrefixLen)))

\* str(x) as an f-string formats it
Format(x) == IF x = None THEN "None" ELSE x

\* the label of the cluster whose first member is obs (the en dash written "-")
cluster_label(obs) ==
  Format(Get(obs, "area", "Unknown")) \o " - " \o Or(Get(obs, "issue_type", None), "finding")

\* the keys of key_to_indices in insertion order
ClusterKeys(observations) ==
  DedupFrom([i \in 1..Len(observations) |-> cluster_key(observations[i])], 1, <<>>)

RECURSIVE IndicesFrom(_, _, _)
\* the 0-based indices i >= from - 1 of the observations whose key is key, ascending
IndicesFrom(observations, key, from) ==
  IF from > Len(observations) THEN <<>>
  ELSE (IF cluster_key(observations[from]) = key THEN <<from - 1>> ELSE <<>>)
         \o IndicesFrom(observations, key, from + 1)

\* the clusters list
Clusters(observations) ==
  LET keys == ClusterKeys(observations)
  IN  [c \in 1..Len(keys) |->
         LET indices == IndicesFrom(observations, keys[c], 1)
         IN  [cluster_id |-> "cluster_" \o ToString(c),
              label |-> cluster_label(observations[indices[1] + 1]),
              observation_indices |-> indices]]

\* cluster_observations(observations): <<result, clusters>>
cluster_observations(observations) ==
  LET keys == ClusterKeys(observations)
      clusters == Clusters(observations)
      ordinal(i) == CHOOSE c \in 1..Len(keys) : keys[c] = cluster_key(observations[i])
  IN  <<[i \in 1..Len(observations) |->
           Put(Put(observations[i], "cluster_id", clusters[ordinal(i)].cluster_id),
               "cluster_label", clusters[ordinal(i)].label)],
        clusters>>

(***************************************************************************)
(* urgency.py                                                              *)
(***************************************************************************)
DescriptionScanLen == 100
DefaultBase == 2
MinUrgency == 1
MaxUrgency == 5
MaxSeverityBoost == 2

SEVERITY_KEYWORDS ==
  <<<<"critical", 2>>, <<"severe", 2>>, <<"immediate", 2>>, <<"urgent", 1>>, <<"high", 1>>,
    <<"significant", 1>>, <<"moderate", 0>>, <<"low", -1>>, <<"minor", -1>>, <<"cosmetic", -1>>>>

ISSUE_TYPE_SCORE ==
  <<<<"moisture", 4>>, <<"water", 4>>, <<"mold", 4>>, <<"plumbing", 4>>, <<"electrical", 4>>,
    <<"structural", 4>>, <<"safety", 5>>, <<"heat loss", 3>>, <<"insulation", 3>>,
    <<"anomaly", 3>>, <<"thermal", 3>>, <<"damage", 3>>, <<"crack", 2>>, <<"leak", 4>>,
    <<"defect", 2>>, <<"cosmetic", 1>>, <<"staining", 2>>, <<"wear", 2>>>>

\* urgency._normalize
urgency_normalize(s) == Lower(Strip(Or(s, "")))

RECURSIVE SeverityScan(_, _, _)
\* score after the loop over SEVERITY_KEYWORDS from entry i on against text
SeverityScan(text, i, score) ==
  IF i > Len(SEVERITY_KEYWORDS) THEN score
  ELSE SeverityScan(text, i + 1,
                    IF Contains(text, SEVERITY_KEYWORDS[i][1])
                    THEN Max(score, SEVERITY_KEYWORDS[i][2]) ELSE score)

RECURSIVE SeverityMentionsScan(_, _, _)
SeverityMentionsScan(severity_mentions, i, score) ==
  IF i > Len(severity_mentions) THEN score
  ELSE SeverityMentionsScan(severity_mentions, i + 1,
                            SeverityScan(urgency_normalize(severity_mentions[i]), 1, score))

_observation_urgency_from_severity(obs, severity_mentions) ==
  LET desc == urgency_normalize(Get(obs, "description", ""))
      score == SeverityMentionsScan(severity_mentions, 1, SeverityScan(desc, 1, 0))
  IN  Min(MaxSeverityBoost, Max(0, score))

\* the text scanned for issue-type keywords
IssueText(obs) ==
  urgency_normalize(Get(obs, "issue_type", "")) \o " "
    \o Prefix(urgency_normalize(Get(obs, "description", "")), DescriptionScanLen)

\* _observation_urgency_from_issue_type taking the highest score among the
\* keywords that occur
_observation_urgency_highest(obs) ==
  LET text == IssueText(obs)
      scores == {ISSUE_TYPE_SCORE[i][2] : i \in {j \in 1..Len(ISSUE_TYPE_SCORE) :
                                                   Contains(text, ISSUE_TYPE_SCORE[j][1])}}
  IN  IF scores = {} THEN DefaultBase ELSE CHOOSE x \in scores : \A y \in scores : y <= x

_observation_urgency_from_issue_type(obs) ==
  LET text == IssueText(obs)
      hit == FirstIndex([i \in 1..Len(ISSUE_TYPE_SCORE) |-> Contains(text, ISSUE_TYPE_SCORE[i][1])],
                        1, Len(ISSUE_TYPE_SCORE))
  IN  IF hit = 0 THEN DefaultBase ELSE ISSUE_TYPE_SCORE[hit][2]

_location_matches_reading(location, area) ==
  LET loc == urgency_normalize(location)
      a == urgency_normalize(area)
  IN  IF loc = "" \/ a = "" THEN FALSE
      ELSE Contains(loc, a) \/ Contains(a, loc)

_thermal_anomaly_boost(obs, temperature_analysis) ==
  IF temperature_analysis = NoData THEN 0
  ELSE LET readings == Get(temperature_analysis, "readings", <<>>)
           area == urgency_normalize(Get(obs, "area", ""))
       IN  IF \E i \in 1..Len(readings) :
                /\ Get(readings[i], "anomaly", FALSE)
                /\ _location_matches_reading(Get(readings[i], "location", ""), area)
           THEN 1 ELSE 0

\* ClampUrgency without the upper limit
ClampUrgency_floor_only(total) == Max(MinUrgency, total)

\* min(5, max(1, total))
ClampUrgency(total) == Min(MaxUrgency, Max(MinUrgency, total))

\* "; ".join(reasons) if reasons else "routine finding"
UrgencyReason(base, sev, thermal) ==
  LET r1 == IF sev > 0 THEN <<"severity keywords in report">> ELSE <<>>
      r2 == IF thermal > 0 THEN <<"thermal anomaly in area">> ELSE <<>>
      r3 == IF base >= 4 THEN <<"high-impact issue type">> ELSE <<>>
      reasons == r1 \o r2 \o r3
      RECURSIVE join(_)
      join(i) == IF i = Len(reasons) THEN reasons[i] ELSE reasons[i] \o "; " \o join(i + 1)
  IN  IF reasons = <<>> THEN "routine finding" ELSE join(1)

\* the body of the loop of score_urgency
score_one_urgency(obs, severity_mentions, temperature_analysis) ==
  LET base == _observation_urgency_from_issue_type(obs)
      sev == _observation_urgency_from_severity(obs, severity_mentions)
      thermal == _thermal_anomaly_boost(obs, temperature_analysis)
  IN  Put(Put(obs, "urgency_score", ClampUrgency(base + sev + thermal)),
          "urgency_reason", UrgencyReason(base, sev, thermal))

\* score_urgency building its result from the last observation to the first
score_urgency_reversed(observations, severity_mentions, temperature_analysis) ==
  [i \in 1..Len(observations) |->
     score_one_urgency(observations[Len(observations) + 1 - i], severity_mentions,
                       temperature_analysis)]

score_urgency(observations, severity_mentions, temperature_analysis) ==
  [i \in 1..Len(observations) |->
     score_one_urgency(observations[i], severity_mentions, temperature_analysis)]

(***************************************************************************)
(* confidence.py; a confidence is counted in hundredths                    *)
(***************************************************************************)
ConflictKeyLen == 80
MinAgreeingSources == 2

RECURSIVE SplitOn(_, _, _, _)
\* the stripped non-empty pieces of s.split(sep) from position i on
SplitOn(s, sep, i, cur) ==
  IF i > Len(s) THEN (IF Strip(cur) = "" THEN {} ELSE {Strip(cur)})
  ELSE IF Char(s, i) = sep
       THEN (IF Strip(cur) = "" THEN {} ELSE {Strip(cur)}) \cup SplitOn(s, sep, i + 1, "")
       ELSE SplitOn(s, sep, i + 1, cur \o Char(s, i))

_sources(obs) ==
  LET src == StrippedField(obs, "source")
  IN  IF src = "" THEN {} ELSE SplitOn(src, ";", 1, "")

\* the text _content_based_confidence searches
ContentText(obs) ==
  Lower(StrippedField(obs, "area")) \o " " \o Lower(StrippedField(obs, "description"))
    \o " " \o Lower(StrippedField(obs, "issue_type"))

AnyIn(text, kws) == \E kw \in kws : Contains(text, kw)

\* the override conditions of _content_based_confidence, in order
ContentRule(text, n) ==
  CASE n = 1 -> AnyIn(text, {"visible", "repeated"})
                  /\ AnyIn(text, {"damp", "moisture", "leak", "damage"})
    [] n = 2 -> Contains(text, "skirting") /\ AnyIn(text, {"damp", "dampness", "moisture"})
    [] n = 3 -> Contains(text, "parking") /\ Contains(text, "ceiling")
                  /\ AnyIn(text, {"leak", "leakage", "water"})
    [] n = 4 -> Contains(text, "moderate") /\ AnyIn(text, {"evidence", "sign", "damage"})
    [] n = 5 -> Contains(text, "tile") /\ AnyIn(text, {"hollow", "hollowness"})
    [] n = 6 -> AnyIn(text, {"unclear", "vague"})
    [] n = 7 -> /\ Contains(text, "damage")
                /\ ~AnyIn(text, {"moisture", "leak", "crack", "structural", "water"})
                /\ AnyIn(text, {"bedroom", "bathroom", "room", "ceiling", "wall"})

ContentResults ==
  <<<<85, "Clear visible or repeated finding">>,
    <<85, "Skirting-level dampness clearly reported">>,
    <<85, "Parking ceiling leakage clearly reported">>,
    <<65, "Moderate evidence">>,
    <<65, "Tile hollowness noted">>,
    <<45, "Unclear or vague finding">>,
    <<45, "Insufficient diagnostic detail for generic damage">>>>

\* the number of the first override that applies, or 0
ContentRuleOf(obs) ==
  FirstIndex([n \in 1..Len(ContentResults) |-> ContentRule(ContentText(obs), n)],
             1, Len(ContentResults))

\* _content_based_confidence(obs): <<>> for None, else <<confidence, reason>>
_content_based_confidence(obs) ==
  IF ContentRuleOf(obs) = 0 THEN <<>> ELSE ContentResults[ContentRuleOf(obs)]

\* (area, first 80 characters of the description) of an observation
ConflictKey(o) ==
  <<StrippedField(o, "area"), Prefix(StrippedField(o, "description"), ConflictKeyLen)>>

\* the set conflict_obs
ConflictObs(confl) ==
  {ConflictKey(confl[i].observation_1) : i \in 1..Len(confl)}
    \cup {ConflictKey(confl[i].observation_2) : i \in 1..Len(confl)}

\* ConfidenceOf with agreement of sources added on top of the single-source value
ConfidenceOf_bonus(obs, conflict_obs) ==
  IF _content_based_confidence(obs) # <<>> THEN _content_based_confidence(obs)
  ELSE IF ConflictKey(obs) \in conflict_obs
       THEN <<50, "Conflicting reports for this finding">>
       ELSE IF Cardinality(_sources(obs)) >= MinAgreeingSources
            THEN <<70 + 90, "Multiple sources agree (inspection and thermal)">>
            ELSE <<70, "Single source">>

\* ConfidenceOf with the conflict set consulted before the content overrides
ConfidenceOf_conflict_first(obs, conflict_obs) ==
  IF ConflictKey(obs) \in conflict_obs
  THEN <<50, "Conflicting reports for this finding">>
  ELSE IF _content_based_confidence(obs) # <<>> THEN _content_based_confidence(obs)
       ELSE IF Cardinality(_sources(obs)) >= MinAgreeingSources
            THEN <<90, "Multiple sources agree (inspection and thermal)">>
            ELSE <<70, "Single source">>

\* the decision of score_confidence on one observation: <<confidence, reason>>
ConfidenceOf(obs, conflict_obs) ==
  IF _content_based_confidence(obs) # <<>> THEN _content_based_confidence(obs)
  ELSE IF ConflictKey(obs) \in conflict_obs
       THEN <<50, "Conflicting reports for this finding">>
       ELSE IF Cardinality(_sources(obs)) >= MinAgreeingSources
            THEN <<90, "Multiple sources agree (inspection and thermal)">>
            ELSE <<70, "Single source">>

score_confidence(observations, confl) ==
  [i \in 1..Len(observations) |->
     LET c == ConfidenceOf(observations[i], ConflictObs(confl))
     IN  Put(Put(observations[i], "confidence", c[1]), "confidence_reason", c[2])]

(***************************************************************************)
(* parser.py.  A document is NoPath (no path given) or a record: whether   *)
(* the file exists, its suffix, whether its format reader succeeds, and    *)
(* the text the reader yields.                                             *)
(***************************************************************************)
\* a path argument that is None
NoPath == NoData

Document(exists, suffix, readable, text) ==
  [exists |-> exists, suffix |-> suffix, readable |-> readable, text |-> text]

RECURSIVE RunEnd(_, _, _)
\* the last position of the run of characters c of s that holds position i
RunEnd(s, c, i) == IF i < Len(s) /\ Char(s, i + 1) = c THEN RunEnd(s, c, i + 1) ELSE i

RECURSIVE CollapseFrom(_, _, _, _, _)
\* re.sub on the runs of at least least characters c of s, from position i on
CollapseFrom(s, c, least, repl, i) ==
  IF i > Len(s) THEN ""
  ELSE IF Char(s, i) # c THEN Char(s, i) \o CollapseFrom(s, c, least, repl, i + 1)
  ELSE LET e == RunEnd(s, c, i)
       IN  (IF e - i + 1 >= least THEN repl ELSE SubSeq(s, i, e))
             \o CollapseFrom(s, c, least, repl, e + 1)

\* newline runs of 3 or more become 2, space runs of 2 or more become 1
_normalize_text(text) ==
  IF Strip(text) = "" THEN ""
  ELSE Strip(Local(CollapseFrom(text, "\n", 3, "\n\n", 1),
                   LAMBDA t : CollapseFrom(t, " ", 2, " ", 1)))

\* the exception parse_document raises on the document, or None
parse_document_raises(doc) ==
  IF ~doc.exists THEN "FileNotFoundError"
  ELSE IF Lower(doc.suffix) \notin {".pdf", ".docx", ".doc", ".txt", ".md", ""} THEN "ValueError"
  ELSE IF ~doc.readable THEN "RuntimeError"
  ELSE None

parse_document(doc) == _normalize_text(doc.text)

\* DocumentText keeping the text as the format reader yields it
DocumentText_as_read(doc) ==
  IF doc = NoPath THEN ""
  ELSE IF parse_document_raises(doc) # None THEN ""
  ELSE doc.text

\* the text run_pipeline keeps for a path: "" without a path or when
\* parse_document raises
DocumentText(doc) ==
  IF doc = NoPath THEN ""
  ELSE IF parse_document_raises(doc) # None THEN ""
  ELSE parse_document(doc)

(***************************************************************************)
(* extractor.py and the parsing of root_cause.py.  json.loads is modelled  *)
(* on the JSON texts of JsonTexts: every other text is not JSON.  A parsed *)
(* value is tagged with its type.                                          *)
(***************************************************************************)
PlaceholderLen == 200

\* the code fence of three backquotes is written as three apostrophes
Fence == "'''"

\* the position of the first occurrence of needle in hay at or after from, or 0
Find(hay, needle, from) ==
  LET hits == {i \in from..(Len(hay) - Len(needle) + 1) : SubSeq(hay, i, i + Len(needle) - 1) = needle}
  IN  IF hits = {} THEN 0 ELSE CHOOSE i \in hits : \A j \in hits : i <= j

\* re.search(r"<fence>(?:json)?\s*([\s\S]*?)\s*<fence>", text): group 1, or text
\* itself when there is no match
FencedBody(text) ==
  LET open == Find(text, Fence, 1)
      start == IF open = 0 THEN 0
               ELSE IF open + 6 <= Len(text) /\ SubSeq(text, open + 3, open + 6) = "json"
               THEN open + 7 ELSE open + 3
      close == IF open = 0 THEN 0 ELSE Find(text, Fence, start)
      \* without a fence after "json" the optional group gives the four letters back
      close0 == IF open = 0 THEN 0 ELSE Find(text, Fence, open + 3)
  IN  IF open = 0 THEN text
      ELSE IF close # 0 THEN Strip(SubSeq(text, start, close - 1))
      ELSE IF close0 # 0 THEN Strip(SubSeq(text, open + 3, close0 - 1))
      ELSE text

JsonObject(v) == [type |-> "object", value |-> v]
JsonArray(v) == [type |-> "array", value |-> v]

JsonHall == "{\"observations\": [{\"area\": \"Hall\", \"description\": \"Damp patch\"}]}"

JsonScan ==
  "{\"observations\": [{\"area\": \"hall\", \"description\": \"Damp patch on wall\", \"source\": \"scan\"}], "
    \o "\"temperatures\": [{\"location\": \"Hall\", \"value\": \"12\", \"unit\": \"C\"}], "
    \o "\"ambiguous\": [\"date unclear\"]}"

JsonInference ==
  "{\"inferences\": [{\"index\": 0, \"root_cause\": \"Failed waterproofing\", "
    \o "\"evidence\": [\"damp staining\"]}]}"

JsonEmptyArray == "[]"

\* the JSON texts of the model and the values json.loads yields for them
JsonTexts ==
  [t \in {JsonHall, JsonScan, JsonInference, JsonEmptyArray} |->
     IF t = JsonHall
     THEN JsonObject([observations |-> <<[area |-> "Hall", description |-> "Damp patch"]>>])
     ELSE IF t = JsonScan
     THEN JsonObject([observations |-> <<[area |-> "hall", description |-> "Damp patch on wall",
                                          source |-> "scan"]>>,
                      temperatures |-> <<[location |-> "Hall", value |-> "12", unit |-> "C"]>>,
                      ambiguous |-> <<"date unclear">>])
     ELSE IF t = JsonInference
     THEN JsonObject([inferences |-> <<[index |-> 0, root_cause |-> "Failed waterproofing",
                                        evidence |-> <<"damp staining">>]>>])
     ELSE JsonArray(<<>>)]

\* extract_json_from_response / the first lines of _parse_inferences: the
\* exception raised (JSONDecodeError) or None, and the parsed value
json_from_response(response) ==
  LET text == FencedBody(Strip(response))
  IN  IF text \in DOMAIN JsonTexts
      THEN [raised |-> None, value |-> JsonTexts[text]]
      ELSE [raised |-> "JSONDecodeError", value |-> None]

\* the dict extract_from_document returns when the response is not JSON
Placeholder(response) ==
  [observations |-> <<>>, temperatures |-> <<>>, severity_mentions |-> <<>>,
   ambiguous |-> <<"Could not parse LLM response as JSON: "
                     \o Prefix(response, PlaceholderLen) \o "...">>,
   missing |-> <<>>]

\* obs["source"] = obs.get("source", source) on every observation
WithDefaultSource(observations, source) ==
  [i \in 1..Len(observations) |->
     Put(observations[i], "source", Get(observations[i], "source", source))]

\* extract_from_document on the response call_llm returned: the exception
\* that leaves it (None when it returns) and the dict it returns
extract_from_document(response, document_type) ==
  LET parsed == json_from_response(response)
      data == parsed.value.value
  IN  IF parsed.raised = "JSONDecodeError"
      THEN [raised |-> None, value |-> Placeholder(response)]
      ELSE IF parsed.value.type # "object"
      THEN [raised |-> "AttributeError", value |-> None]
      ELSE [raised |-> None,
            value |-> [observations |-> WithDefaultSource(Get(data, "observations", <<>>),
                                                          document_type),
                       temperatures |-> Get(data, "temperatures", <<>>),
                       severity_mentions |-> Get(data, "severity_mentions", <<>>),
                       ambiguous |-> Get(data, "ambiguous", <<>>),
                       missing |-> Get(data, "missing", <<>>)]]

\* _parse_inferences and the try around it: the exception that leaves
\* infer_root_causes there (None when none does) and the inferences
parse_inferences(response) ==
  LET parsed == json_from_response(response)
  IN  IF parsed.raised = "JSONDecodeError"
      THEN [raised |-> None, value |-> <<>>]
      ELSE IF parsed.value.type # "object"
      THEN [raised |-> "AttributeError", value |-> None]
      ELSE [raised |-> None, value |-> Get(parsed.value.value, "inferences", <<>>)]

\* {inf.get("index", i): inf for i, inf in enumerate(inferences)}: a later
\* inference replaces an earlier one of the same index
by_index_of(inferences) ==
  LET IndexOf(i) == Get(inferences[i], "index", i - 1)
      keys == {IndexOf(i) : i \in 1..Len(inferences)}
  IN  [x \in keys |->
         inferences[CHOOSE i \in 1..Len(inferences) :
                      /\ IndexOf(i) = x
                      /\ \A j \in 1..Len(inferences) : IndexOf(j) = x => j <= i]]

(***************************************************************************)
(* The list a stage was handed, as the caller finds it after the call:     *)
(* compute_temperature_analysis only reads its readings; the other stages  *)
(* build their result from dict(obs) copies and write to the copies only.  *)
(***************************************************************************)
temperatures_after(temperatures) == temperatures

clustered_after(observations) == observations

urgency_scored_after(observations) == observations

root_causes_after(observations) == observations

confidence_scored_after(observations) == observations

(***************************************************************************)
(* State of one run of the core                                            *)
(***************************************************************************)
VARIABLES
  inspection_data,     \* extraction of the inspection document, or NoData
  thermal_data,        \* extraction of the thermal document, or NoData
  pc,                  \* position in merge_extractions / run_pipeline
  k,                   \* number of observations the running add_observations loop has consumed
  seen_observations,   \* merge_extractions: the canonical observations
  merged,              \* merge_extractions / run_pipeline: the merged dict
  conflicts,           \* merge_extractions: the Conflict records
  missing_list,        \* merge_extractions: third component of the result
  raised,              \* None, or the exception that ended the run
  passed,              \* the list handed to the stage that returned last, as that call left it
  inspection_path,     \* run_pipeline: the document at inspection_path, or NoPath
  thermal_path,        \* run_pipeline: the document at thermal_path, or NoPath
  output_path,         \* run_pipeline: whether an output path is given
  inspection_text,     \* run_pipeline: text of the inspection document
  thermal_text,        \* run_pipeline: text of the thermal document
  llm_calls,           \* number of calls of call_llm so far
  response,            \* the text the last call of call_llm returned, or None
  report_file,         \* the text written to output_path, or None
  environ,             \* call_llm: os.environ, the two API key variables
  importable,          \* call_llm: whether google.genai can be imported
  attempt,             \* call_llm: the loop variable
  api_attempts,        \* call_llm: number of calls of generate_content so far
  slept,               \* call_llm: seconds spent in time.sleep so far
  last_error           \* call_llm: message of the last exception of generate_content, or None

\* the arguments and the texts of run_pipeline, and its output file
front == <<inspection_path, thermal_path, output_path, inspection_text, thermal_text,
           report_file>>

\* the calls of the collaborator
llm == <<llm_calls, response>>

\* the state of one call of call_llm
client == <<environ, importable, attempt, api_attempts, slept, last_error>>

vars == <<inspection_data, thermal_data, pc, k, seen_observations, merged,
          conflicts, missing_list, raised, passed, front, llm, client>>

\* call_llm is not running: the collaborator is represented by its responses
ClientIdle ==
  /\ environ = [GOOGLE_API_KEY |-> None, GEMINI_API_KEY |-> None]
  /\ importable = FALSE
  /\ attempt = 0
  /\ api_attempts = 0
  /\ slept = 0
  /\ last_error = None

\* merge_extractions is called on its own: no document, no call of the
\* collaborator, no output file
CoreOnly ==
  /\ inspection_path = NoPath
  /\ thermal_path = NoPath
  /\ output_path = FALSE
  /\ inspection_text = ""
  /\ thermal_text = ""
  /\ llm_calls = 0
  /\ response = None
  /\ report_file = None
  /\ ClientIdle

EmptyMerged ==
  [observations |-> <<>>, temperatures |-> <<>>, severity_mentions |-> <<>>,
   ambiguous |-> <<>>, missing |-> <<>>]

(***************************************************************************)
(* Inputs                                                                  *)
(***************************************************************************)
\* Bounds of the enumerated inputs
MaxObs == 3        \* observations over both extractions
MaxNotes == 4      \* ambiguous entries over both extractions

Obs2(a, d) == [area |-> a, description |-> d]
Obs3(a, d, it) == [area |-> a, description |-> d, issue_type |-> it]

ObsVisible == Obs2("Bathroom ceiling", "Visible damp staining on ceiling")
ObsModerate == Obs2("bathroom ceiling", "moderate moisture evidence")
ObsCold == Obs3("Bathroom ceiling", "Cold spot detected", "Moisture")
ObsBlank == Obs2(" ", "")
\* its description is longer than PrefixLen; "kitchen unit" lies beyond the prefix
ObsLeakLong ==
  Obs2("Kitchen", "Water leak under the sink cabinet near the back wall of the kitchen unit")
ObsLeakShort == Obs2("kitchen", "Kitchen unit")
ObsCrack == Obs3("Hall", "Crack in plaster near door frame", "Wall crack")
ObsCrackThermal == Obs3(" HALL ", "Crack in plaster near door", "Hairline crack")

\* The observations of one enumerated input are drawn from one of these sets:
\* findings about the bathroom ceiling (and an observation with blank fields),
\* or findings about the hall and the kitchen.
ObsDomains ==
  {{ObsVisible, ObsModerate, ObsCold, ObsBlank},
   {ObsCrack, ObsCrackThermal, ObsLeakLong, ObsLeakShort}}

NoteDomain == {"A", "B", ""}

\* sequences over S of length at most n
SeqUpTo(S, n) == UNION {[1..m -> S] : m \in 0..n}

Extraction(obs, temps, sev, amb, mis) ==
  [observations |-> obs, temperatures |-> temps, severity_mentions |-> sev,
   ambiguous |-> amb, missing |-> mis]

\* a reading as the extractor delivers it
Reading(loc, val, unit) == [location |-> loc, value |-> val, unit |-> unit]

TempBundles ==
  {<<>>,
   <<Reading("Kitchen", "22", "^C"), Reading("Bathroom", "33", "^C")>>,
   <<Reading("Hall", "68", "F"), Reading("hall", "n/a", "F"), Reading("Kitchen", "20-22", "")>>}

SeverityBundles == {<<>>, <<"Severe ", "moderate">>, <<"minor", "", "minor">>}

\* the ways of cutting the sequence t into n consecutive pieces
RECURSIVE Cuts(_, _)
Cuts(t, n) ==
  IF n = 1 THEN {<<t>>}
  ELSE UNION {{<<SubSeq(t, 1, c)>> \o rest : rest \in Cuts(SubSeq(t, c + 1, Len(t)), n - 1)} :
                c \in 0..Len(t)}

\* extractions that differ in their observations only
ObsInputs ==
  UNION {{<<Extraction(c[1], <<>>, <<>>, <<>>, <<>>), Extraction(c[2], <<>>, <<>>, <<>>, <<>>)>> :
            c \in Cuts(t, 2)} : t \in UNION {SeqUpTo(D, MaxObs) : D \in ObsDomains}}

\* the missing lists of the two extractions
MissingBundles == {<<<<>>, <<>>>>, <<<<"B", "D">>, <<"D", "", "B">>>>, <<<<"A", "A">>, <<>>>>}

\* the missing lists that go with the enumerated ambiguous lists
MissingLists == <<<<"B", "D">>, <<"D", "", "B">>>>

\* extractions that differ in their ambiguous and missing lists only
NoteInputs ==
  UNION {{<<Extraction(<<>>, <<>>, <<>>, c[1], MissingLists[1]),
            Extraction(<<>>, <<>>, <<>>, c[2], MissingLists[2])>> :
            c \in Cuts(t, 2)} : t \in SeqUpTo(NoteDomain, MaxNotes)}
  \cup {<<Extraction(<<>>, <<>>, <<>>, <<"A", "">>, m[1]), Extraction(<<>>, <<>>, <<>>, <<>>, m[2])>> :
          m \in MissingBundles}
  \cup {<<Extraction(<<>>, <<>>, <<>>, <<"A", "B">>, MissingLists[1]),
           Extraction(<<>>, <<>>, <<>>, <<"B", "C">>, MissingLists[2])>>}

\* extractions with readings and severity mentions, one document possibly absent
ScoreInputs ==
  {<<Extraction(io, t1, s1, <<>>, <<>>), td>> :
     io \in SeqUpTo({ObsVisible, ObsLeakLong, ObsCrack}, 1),
     t1 \in TempBundles, s1 \in SeverityBundles,
     td \in {NoData, Extraction(<<ObsCold>>, <<Reading("Bathroom ceiling", "21", "C")>>,
                              <<"urgent">>, <<>>, <<>>)}}
  \cup {<<NoData, NoData>>, <<NoData, Extraction(<<ObsModerate>>, <<>>, <<>>, <<>>, <<>>)>>}

Inputs == ObsInputs \cup NoteInputs \cup ScoreInputs

Init ==
  /\ \E p \in Inputs : inspection_data = p[1] /\ thermal_data = p[2]
  /\ pc = "add_inspection"
  /\ k = 0
  /\ seen_observations = <<>>
  /\ merged = EmptyMerged
  /\ conflicts = <<>>
  /\ missing_list = <<>>
  /\ raised = None
  /\ passed = <<>>
  /\ CoreOnly

(***************************************************************************)
(* merge_extractions, one action per loop iteration or block               *)
(***************************************************************************)
\* add_observations(data, source_label): one iteration of its loop
AddStep(data, source_label) ==
  LET r == add_observation(seen_observations, conflicts,
                           ListOf(data, "observations")[k + 1], source_label)
      after == [data EXCEPT !.observations[k + 1] =
                  caller_observation(ListOf(data, "observations")[k + 1], source_label)]
  IN  /\ k < Len(ListOf(data, "observations"))
      /\ IF source_label = "Inspection Report"
         THEN inspection_data' = after /\ UNCHANGED thermal_data
         ELSE thermal_data' = after /\ UNCHANGED inspection_data
      /\ IF r.raised
         THEN /\ raised' = "TypeError"
              /\ pc' = "raised"
              /\ UNCHANGED <<k, seen_observations, merged, conflicts>>
         ELSE /\ k' = k + 1
              /\ seen_observations' = r.seen
              /\ merged' = [merged EXCEPT !.observations = r.seen]
              /\ conflicts' = r.conflicts
              /\ UNCHANGED <<pc, raised>>
      /\ UNCHANGED <<missing_list, passed, front, llm>>
      /\ UNCHANGED client

\* add_observations(inspection_data, "Inspection Report")
AddInspectionObservation ==
  /\ pc = "add_inspection"
  /\ AddStep(inspection_data, "Inspection Report")

\* the inspection loop is exhausted (or the data is None): on to the thermal call
EndInspection ==
  /\ pc = "add_inspection"
  /\ k = Len(ListOf(inspection_data, "observations"))
  /\ pc' = "add_thermal"
  /\ k' = 0
  /\ UNCHANGED <<inspection_data, thermal_data, seen_observations, merged, conflicts,
                 missing_list, raised, passed, front, llm>>
  /\ UNCHANGED client

\* add_observations(thermal_data, "Thermal Report")
AddThermalObservation ==
  /\ pc = "add_thermal"
  /\ AddStep(thermal_data, "Thermal Report")

\* the rest of merge_extractions: temperatures, severity mentions, ambiguous
\* and missing lists, and the return
FinishMerge ==
  /\ pc = "add_thermal"
  /\ k = Len(ListOf(thermal_data, "observations"))
  /\ LET amb == DedupNotes(ListOf(inspection_data, "ambiguous") \o ListOf(thermal_data, "ambiguous"))
         mis == DedupNotes(ListOf(inspection_data, "missing") \o ListOf(thermal_data, "missing"))
     IN  /\ merged' = [merged EXCEPT
                         !.temperatures = ListOf(inspection_data, "temperatures")
                                            \o ListOf(thermal_data, "temperatures"),
                         !.severity_mentions = MergeSeverities(inspection_data, thermal_data),
                         !.ambiguous = amb,
                         !.missing = mis]
         /\ missing_list' = amb \o mis
  /\ pc' = "temperature_analysis"
  /\ UNCHANGED <<inspection_data, thermal_data, k, seen_observations, conflicts, raised,
                 passed, front, llm>>
  /\ UNCHANGED client

(***************************************************************************)
(* run_pipeline after the merge, one action per stage                      *)
(***************************************************************************)
\* merged["temperature_analysis"] = compute_temperature_analysis(merged["temperatures"])
TemperatureAnalysis ==
  /\ pc = "temperature_analysis"
  /\ merged' = Put(merged, "temperature_analysis",
                   compute_temperature_analysis(merged.temperatures, DEFAULT_ANOMALY_THRESHOLD_C))
  /\ passed' = temperatures_after(merged.temperatures)
  /\ pc' = "cluster"
  /\ UNCHANGED <<inspection_data, thermal_data, k, seen_observations, conflicts,
                 missing_list, raised, front, llm>>
  /\ UNCHANGED client

\* merged["observations"], merged["clusters"] = cluster_observations(merged["observations"])
ClusterObservations ==
  /\ pc = "cluster"
  /\ IF \E i \in 1..Len(merged.observations) : cluster_key_raises(merged.observations[i])
     THEN /\ raised' = "TypeError"
          /\ pc' = "raised"
          /\ UNCHANGED <<merged, passed>>
     ELSE /\ merged' = Put(Put(merged, "observations", cluster_observations(merged.observations)[1]),
                           "clusters", cluster_observations(merged.observations)[2])
          /\ passed' = clustered_after(merged.observations)
          /\ pc' = "urgency"
          /\ UNCHANGED raised
  /\ UNCHANGED <<inspection_data, thermal_data, k, seen_observations, conflicts, missing_list,
                 front, llm>>
  /\ UNCHANGED client

\* merged["observations"] = score_urgency(merged["observations"],
\*     merged.get("severity_mentions", []), merged.get("temperature_analysis"))
ScoreUrgency ==
  /\ pc = "urgency"
  /\ merged' = Put(merged, "observations",
                   score_urgency(merged.observations,
                                 Get(merged, "severity_mentions", <<>>),
                                 Get(merged, "temperature_analysis", NoData)))
  /\ passed' = urgency_scored_after(merged.observations)
  /\ pc' = "root_cause"
  /\ UNCHANGED <<inspection_data, thermal_data, k, seen_observations, conflicts,
                 missing_list, raised, front, llm>>
  /\ UNCHANGED client

DefaultRootCause ==
  "Insufficient diagnostic detail available to determine root cause. Further inspection recommended."

\* the annotation loop of infer_root_causes
annotate_root_causes(observations, by_index) ==
  [i \in 1..Len(observations) |->
     LET inf == Get(by_index, i - 1, NoData)
         rc0 == Or(Get(inf, "root_cause", None), DefaultRootCause)
         rc == IF Contains(Lower(rc0), "not determinable") \/ rc0 = "Not determinable from data"
               THEN DefaultRootCause ELSE rc0
     IN  Put(Put(observations[i], "root_cause", rc), "evidence", Get(inf, "evidence", <<>>))]

\* the texts call_llm is taken to return to infer_root_causes: one that is
\* not JSON, a fenced JSON object with one inference, a JSON array
RootCauseResponses ==
  {"The cause cannot be told from the data.",
   Fence \o "json " \o JsonInference \o " " \o Fence,
   JsonEmptyArray}

\* merged["observations"] = infer_root_causes(...): no call on an empty list
InferRootCauses ==
  /\ pc = "root_cause"
  /\ IF merged.observations = <<>>
     THEN /\ merged' = Put(merged, "observations", <<>>)
          /\ passed' = root_causes_after(merged.observations)
          /\ pc' = "confidence"
          /\ UNCHANGED <<raised, llm>>
     ELSE \E resp \in RootCauseResponses :
            LET inferences == parse_inferences(resp)
            IN  /\ llm_calls' = llm_calls + 1
                /\ response' = resp
                /\ IF inferences.raised # None
                   THEN /\ raised' = inferences.raised
                        /\ pc' = "raised"
                        /\ UNCHANGED <<merged, passed>>
                   ELSE /\ merged' = Put(merged, "observations",
                                         annotate_root_causes(merged.observations,
                                                              by_index_of(inferences.value)))
                        /\ passed' = root_causes_after(merged.observations)
                        /\ pc' = "confidence"
                        /\ UNCHANGED raised
  /\ UNCHANGED <<inspection_data, thermal_data, k, seen_observations, conflicts,
                 missing_list, front>>
  /\ UNCHANGED client

\* call_llm raises inside infer_root_causes: the run ends with the exception
RootCauseCallFails ==
  /\ pc = "root_cause"
  /\ merged.observations # <<>>
  /\ llm_calls' = llm_calls + 1
  /\ raised' = "RuntimeError"
  /\ pc' = "raised"
  /\ UNCHANGED <<inspection_data, thermal_data, k, seen_observations, merged, conflicts,
                 missing_list, passed, front, response>>
  /\ UNCHANGED client

\* merged["observations"] = score_confidence(merged["observations"], conflicts)
ScoreConfidence ==
  /\ pc = "confidence"
  /\ merged' = Put(merged, "observations", score_confidence(merged.observations, conflicts))
  /\ passed' = confidence_scored_after(merged.observations)
  /\ pc' = "done"
  /\ UNCHANGED <<inspection_data, thermal_data, k, seen_observations, conflicts,
                 missing_list, raised, front, llm>>
  /\ UNCHANGED client

Next ==
  \/ AddInspectionObservation
  \/ EndInspection
  \/ AddThermalObservation
  \/ FinishMerge
  \/ TemperatureAnalysis
  \/ ClusterObservations
  \/ ScoreUrgency
  \/ InferRootCauses
  \/ RootCauseCallFails
  \/ ScoreConfidence

Spec == Init /\ [][Next]_vars

(***************************************************************************)
(* run_pipeline from its call to its return (output_format "markdown",     *)
(* which format_output returns unchanged)                                  *)
(***************************************************************************)
DocDomain ==
  {NoPath,
   Document(FALSE, ".txt", TRUE, ""),
   Document(TRUE, ".xls", TRUE, "Damp patch in hall"),
   Document(TRUE, ".pdf", FALSE, ""),
   Document(TRUE, ".TXT", TRUE, " \n "),
   Document(TRUE, ".pdf", TRUE, " Damp  patch in hall\n\n\n\nCeiling stained ")}

\* the texts call_llm is taken to return to extract_from_document: two that
\* are not JSON, a JSON object, a fenced JSON object, a JSON array
ExtractionResponses ==
  {"Sorry, I cannot read this report.",
   "",
   JsonHall,
   Fence \o "json " \o JsonScan \o " " \o Fence,
   JsonEmptyArray}

\* the texts call_llm is taken to return to generate_ddr
ReportResponses == {"## Summary\n- Damp patch in hall"}

InitPipeline ==
  /\ inspection_path \in DocDomain
  /\ thermal_path \in DocDomain
  /\ output_path \in BOOLEAN
  /\ inspection_text = ""
  /\ thermal_text = ""
  /\ llm_calls = 0
  /\ response = None
  /\ report_file = None
  /\ inspection_data = NoData
  /\ thermal_data = NoData
  /\ pc = "parse_inspection"
  /\ k = 0
  /\ seen_observations = <<>>
  /\ merged = EmptyMerged
  /\ conflicts = <<>>
  /\ missing_list = <<>>
  /\ raised = None
  /\ passed = <<>>
  /\ ClientIdle

core == <<inspection_data, thermal_data, k, seen_observations, merged, conflicts,
          missing_list, passed>>

\* if inspection_path: try parse_document, except Exception: ""
ParseInspection ==
  /\ pc = "parse_inspection"
  /\ inspection_text' = DocumentText(inspection_path)
  /\ pc' = "parse_thermal"
  /\ UNCHANGED <<core, raised, llm, inspection_path, thermal_path, output_path, thermal_text,
                 report_file>>
  /\ UNCHANGED client

\* if thermal_path: try parse_document, except Exception: ""
ParseThermal ==
  /\ pc = "parse_thermal"
  /\ thermal_text' = DocumentText(thermal_path)
  /\ pc' = "require_document"
  /\ UNCHANGED <<core, raised, llm, inspection_path, thermal_path, output_path,
                 inspection_text, report_file>>
  /\ UNCHANGED client

\* if not inspection_text and not thermal_text: raise ValueError
RequireDocument ==
  /\ pc = "require_document"
  /\ IF inspection_text = "" /\ thermal_text = ""
     THEN raised' = "ValueError" /\ pc' = "raised"
     ELSE pc' = "extract_inspection" /\ UNCHANGED raised
  /\ UNCHANGED <<core, front, llm>>
  /\ UNCHANGED client

\* if inspection_text: inspection_data = extract_from_document(..., "inspection")
ExtractInspection ==
  /\ pc = "extract_inspection"
  /\ IF inspection_text = ""
     THEN /\ pc' = "extract_thermal"
          /\ UNCHANGED <<inspection_data, raised, llm>>
     ELSE \E resp \in ExtractionResponses :
            LET r == extract_from_document(resp, "inspection")
            IN  /\ llm_calls' = llm_calls + 1
                /\ response' = resp
                /\ IF r.raised # None
                   THEN raised' = r.raised /\ pc' = "raised" /\ UNCHANGED inspection_data
                   ELSE inspection_data' = r.value /\ pc' = "extract_thermal" /\ UNCHANGED raised
  /\ UNCHANGED <<thermal_data, k, seen_observations, merged, conflicts, missing_list, passed,
                 front>>
  /\ UNCHANGED client

\* if thermal_text: thermal_data = extract_from_document(..., "thermal")
ExtractThermal ==
  /\ pc = "extract_thermal"
  /\ IF thermal_text = ""
     THEN /\ pc' = "add_inspection"
          /\ UNCHANGED <<thermal_data, raised, llm>>
     ELSE \E resp \in ExtractionResponses :
            LET r == extract_from_document(resp, "thermal")
            IN  /\ llm_calls' = llm_calls + 1
                /\ response' = resp
                /\ IF r.raised # None
                   THEN raised' = r.raised /\ pc' = "raised" /\ UNCHANGED thermal_data
                   ELSE thermal_data' = r.value /\ pc' = "add_inspection" /\ UNCHANGED raised
  /\ UNCHANGED <<inspection_data, k, seen_observations, merged, conflicts, missing_list,
                 passed, front>>
  /\ UNCHANGED client

\* call_llm raises inside extract_from_document: the run ends with the exception
ExtractCallFails ==
  /\ \/ pc = "extract_inspection" /\ inspection_text # ""
     \/ pc = "extract_thermal" /\ thermal_text # ""
  /\ llm_calls' = llm_calls + 1
  /\ raised' = "RuntimeError"
  /\ pc' = "raised"
  /\ UNCHANGED <<core, front, response>>
  /\ UNCHANGED client

\* report = format_output(generate_ddr(...), "markdown"), written to
\* output_path when one is given, and returned
GenerateReport ==
  /\ pc = "done"
  /\ \E report \in ReportResponses :
       /\ llm_calls' = llm_calls + 1
       /\ response' = report
       /\ report_file' = IF output_path THEN report ELSE report_file
  /\ pc' = "returned"
  /\ UNCHANGED <<core, raised, inspection_path, thermal_path, output_path, inspection_text,
                 thermal_text>>
  /\ UNCHANGED client

\* call_llm raises inside generate_ddr: the run ends with the exception
GenerateCallFails ==
  /\ pc = "done"
  /\ llm_calls' = llm_calls + 1
  /\ raised' = "RuntimeError"
  /\ pc' = "raised"
  /\ UNCHANGED <<core, front, response>>
  /\ UNCHANGED client

NextPipeline ==
  \/ ParseInspection
  \/ ParseThermal
  \/ RequireDocument
  \/ ExtractInspection
  \/ ExtractThermal
  \/ ExtractCallFails
  \/ Next
  \/ GenerateReport
  \/ GenerateCallFails

SpecPipeline == InitPipeline /\ [][NextPipeline]_vars

(***************************************************************************)
(* The stages on their own: each specification draws the arguments of one  *)
(* stage from a bounded set and applies the stage to them.                 *)
(***************************************************************************)
MaxReadings == 3      \* readings of CoreReadings handed to compute_temperature_analysis
MaxAnyReadings == 2   \* readings of ReadingDomain handed to compute_temperature_analysis
MaxClusterObs == 3    \* observations handed to cluster_observations
MaxUrgencyObs == 2    \* observations handed to score_urgency
MaxConfidenceObs == 2 \* observations handed to score_confidence

\* the state at the call of a stage of run_pipeline on the merged dict m
AtStage(stage, m, confl) ==
  /\ inspection_data = NoData
  /\ thermal_data = NoData
  /\ pc = stage
  /\ k = 0
  /\ seen_observations = <<>>
  /\ merged = m
  /\ conflicts = confl
  /\ missing_list = <<>>
  /\ raised = None
  /\ passed = <<>>
  /\ CoreOnly

ReadingDomain ==
  {Reading("Kitchen", "22", "^C"), Reading("Bedroom", "30", "^C"), Reading("Bedroom", "32", "^C"),
   Reading("Bedroom", "33", "^C"), Reading("Attic", "10", "C"), Reading("Attic", "20", ""),
   Reading("Attic", "30.02", "^C"), Reading("Attic", "30.008", "^C"),
   Reading("Roof", "68", "^F"), Reading("Roof", "86", "F"), Reading("Roof", "n/a", "^C"),
   Reading("Wall", "19-21^C", ""), Reading("Wall", None, "^C"),
   Reading("Wall", " 50.0 ", "fahrenheit")}

\* the readings of the longer lists: Celsius, Fahrenheit and unparseable
CoreReadings ==
  {Reading("Attic", "10", "C"), Reading("Attic", "20", ""), Reading("Bedroom", "30", "^C"),
   Reading("Roof", "86", "F"), Reading("Roof", "n/a", "^C")}

InitTemp ==
  \E temps \in SeqUpTo(ReadingDomain, MaxAnyReadings) \cup SeqUpTo(CoreReadings, MaxReadings) :
    AtStage("temperature_analysis", Put(EmptyMerged, "temperatures", temps), <<>>)

NextTemp == TemperatureAnalysis

SpecTemp == InitTemp /\ [][NextTemp]_vars

ClusterDomain ==
  {ObsCrack,
   Obs3("hall ", "Hairline crack above the door", " wall crack "),
   ObsVisible,
   Obs2("Bathroom ceiling", "Peeling paint"),
   ObsCold,
   [area |-> "Hall", description |-> None]}

InitCluster ==
  \E obs \in SeqUpTo(ClusterDomain, MaxClusterObs) :
    AtStage("cluster", Put(EmptyMerged, "observations", obs), <<>>)

NextCluster == ClusterObservations

SpecCluster == InitCluster /\ [][NextCluster]_vars

UrgencyDomain ==
  {Obs3("Stairs", "Critical hazard: loose hand rail", "Safety"),
   Obs3("Lobby", "Cosmetic wear, low priority", "Cosmetic"),
   Obs2("", ""),
   [area |-> None, description |-> None, issue_type |-> None],
   ObsVisible,
   Obs3("Roof", "Leak along the crack", ""),
   \* "mold" lies beyond the first DescriptionScanLen characters
   Obs2("Cellar", "The north side of the cellar was inspected on a dry day and the surface of the rear wall looked sound, mold aside")}

AnalysisDomain ==
  {NoData,
   NoAnalysis,
   compute_temperature_analysis(
     <<Reading("Stairs and lobby", "40", "^C"), Reading("Roof", "20", "^C"),
       Reading("Attic", "21", "^C")>>, DEFAULT_ANOMALY_THRESHOLD_C)}

InitUrgency ==
  \E obs \in SeqUpTo(UrgencyDomain, MaxUrgencyObs), sev \in SeverityBundles,
     ta \in AnalysisDomain :
    AtStage("urgency",
            Put(Put(Put(EmptyMerged, "observations", obs), "severity_mentions", sev),
                "temperature_analysis", ta),
            <<>>)

NextUrgency == ScoreUrgency

SpecUrgency == InitUrgency /\ [][NextUrgency]_vars

WithSource(obs, src) == Put(obs, "source", src)

ConfidenceDomain ==
  {WithSource(ObsVisible, "Inspection Report"),
   WithSource(ObsModerate, "Thermal Report"),
   WithSource(ObsCold, "Inspection Report; Thermal Report"),
   WithSource(ObsCrack, "Inspection Report; Thermal Report"),
   WithSource(ObsLeakShort, "Inspection Report"),
   WithSource(Obs2("Master bedroom", "Damage - unclear extent"), "Thermal Report"),
   [area |-> None, description |-> None],
   \* observations to which several content overrides apply
   WithSource(Obs2("Lounge", "Visible moderate damage, vague origin"), "Inspection Report; Thermal Report"),
   WithSource(Obs3("Lobby", "Skirting damp", "Hollow tile"), "Inspection Report"),
   WithSource(Obs2("Parking ceiling", "Unclear water leakage"), "Thermal Report"),
   WithSource(Obs2("Kitchen floor", "Hollow tile, vague extent"), "Inspection Report"),
   WithSource(Obs2("Bedroom wall", "Damage"), "Inspection Report; Thermal Report")}

ConflictBundles ==
  {<<>>,
   <<Conflict(WithSource(ObsCrack, "Inspection Report"), WithSource(ObsLeakShort, "Thermal Report"))>>,
   <<Conflict(WithSource(ObsModerate, "Inspection Report"), WithSource(ObsCold, "Thermal Report")),
     Conflict(WithSource(ObsVisible, "Inspection Report"), WithSource(ObsCold, "Thermal Report"))>>,
   <<Conflict(WithSource(Obs2("Kitchen floor", "Hollow tile, vague extent"), "Inspection Report"),
              WithSource(Obs2("Bedroom wall", "Damage"), "Thermal Report"))>>}

InitConfidence ==
  \E obs \in SeqUpTo(ConfidenceDomain, MaxConfidenceObs), confl \in ConflictBundles :
    AtStage("confidence", Put(EmptyMerged, "observations", obs), confl)

NextConfidence == ScoreConfidence

SpecConfidence == InitConfidence /\ [][NextConfidence]_vars

(***************************************************************************)
(* The core on partial data: observations with absent or null fields, in   *)
(* extractions that hold nothing but their observations.                   *)
(***************************************************************************)
MaxPartialObs == 2    \* inspection observations with absent or null fields

PartialDomain ==
  {[area |-> "Hall"],
   [area |-> "Hall", description |-> None],
   [area |-> None, description |-> "Damp patch", issue_type |-> None, source |-> None],
   [description |-> "Damp patch on the wall", issue_type |-> "Moisture"],
   NoData}

PartialInputs ==
  {<<id, td>> :
     id \in {NoData} \cup {[observations |-> obs] : obs \in SeqUpTo(PartialDomain, MaxPartialObs)},
     td \in {NoData} \cup {[observations |-> obs] : obs \in SeqUpTo(PartialDomain, 1)}}

InitPartial ==
  /\ \E p \in PartialInputs : inspection_data = p[1] /\ thermal_data = p[2]
  /\ pc = "add_inspection"
  /\ k = 0
  /\ seen_observations = <<>>
  /\ merged = EmptyMerged
  /\ conflicts = <<>>
  /\ missing_list = <<>>
  /\ raised = None
  /\ passed = <<>>
  /\ CoreOnly

SpecPartial == InitPartial /\ [][Next]_vars

(***************************************************************************)
(* merge_extractions on one inspection and one thermal observation: the    *)
(* thermal observation is compared with the inspection one.                *)
(***************************************************************************)
\* longer than PrefixLen; "kitchen unit" lies beyond the prefix
LongIssueType == "Water leak under the sink cabinet near the back wall of the kitchen unit"

SimilarDomain ==
  {Obs2("Hall", "Damp ceiling patch"),
   Obs2("hall ", "Damp wall stain"),
   Obs2("Hall", ""),
   Obs2("Kitchen", "Damp ceiling patch"),
   Obs3("Hall", "Damp ceiling patch", "Moisture"),
   Obs3("Hall", "Stain", LongIssueType),
   Obs3("Hall", "Mark", "Kitchen unit"),
   [area |-> "Hall", description |-> None]}

InitSimilar ==
  /\ \E a \in SimilarDomain, b \in SimilarDomain :
       /\ inspection_data = Extraction(<<a>>, <<>>, <<>>, <<>>, <<>>)
       /\ thermal_data = Extraction(<<b>>, <<>>, <<>>, <<>>, <<>>)
  /\ pc = "add_inspection"
  /\ k = 0
  /\ seen_observations = <<>>
  /\ merged = EmptyMerged
  /\ conflicts = <<>>
  /\ missing_list = <<>>
  /\ raised = None
  /\ passed = <<>>
  /\ CoreOnly

NextSimilar ==
  \/ AddInspectionObservation
  \/ EndInspection
  \/ AddThermalObservation
  \/ FinishMerge

SpecSimilar == InitSimilar /\ [][NextSimilar]_vars

(***************************************************************************)
(* merge_extractions on observations of which one is similar to several    *)
(* others that are not similar to each other                               *)
(***************************************************************************)
MaxGreedyObs == 3     \* inspection observations of the greedy scenarios

GreedyDomain ==
  {Obs2("Hall", "Damp ceiling patch"),
   Obs2("Hall", "Wet wall stain"),
   Obs2("hall", "Damp wall"),
   Obs2(" HALL", "Damp ceiling patch and wet wall stain")}

InitGreedy ==
  /\ \E io \in SeqUpTo(GreedyDomain, MaxGreedyObs), to \in SeqUpTo(GreedyDomain, 1) :
       /\ inspection_data = Extraction(io, <<>>, <<>>, <<>>, <<>>)
       /\ thermal_data = Extraction(to, <<>>, <<>>, <<>>, <<>>)
  /\ pc = "add_inspection"
  /\ k = 0
  /\ seen_observations = <<>>
  /\ merged = EmptyMerged
  /\ conflicts = <<>>
  /\ missing_list = <<>>
  /\ raised = None
  /\ passed = <<>>
  /\ CoreOnly

SpecGreedy == InitGreedy /\ [][NextSimilar]_vars

(***************************************************************************)
(* run_pipeline from the merge to score_confidence on findings about one   *)
(* area that conflict with or are combined into one another, one of them   *)
(* carrying a source of the extractor's own                                *)
(***************************************************************************)
MaxEndToEndObs == 2   \* inspection observations of the end-to-end scenarios

EndToEndDomain ==
  {Obs2("Hall", "Damp ceiling patch"),
   Obs2("hall", "Damp wall"),
   Obs2(" HALL", "Damp ceiling patch and wet wall stain"),
   [area |-> "Hall", description |-> "Damp ceiling patch", source |-> "Site notes; Lab report"]}

EndToEndThermal ==
  {<<>>,
   <<Obs2(" HALL", "Damp ceiling patch and wet wall stain")>>,
   <<Obs2("hall", "Damp wall")>>,
   <<Obs2("hall", "Damp wall"), Obs2(" HALL", "Damp ceiling patch and wet wall stain")>>}

InitEndToEnd ==
  /\ \E io \in SeqUpTo(EndToEndDomain, MaxEndToEndObs), to \in EndToEndThermal :
       /\ inspection_data = Extraction(io, <<>>, <<>>, <<>>, <<>>)
       /\ thermal_data = Extraction(to, <<>>, <<>>, <<>>, <<>>)
  /\ pc = "add_inspection"
  /\ k = 0
  /\ seen_observations = <<>>
  /\ merged = EmptyMerged
  /\ conflicts = <<>>
  /\ missing_list = <<>>
  /\ raised = None
  /\ passed = <<>>
  /\ CoreOnly

SpecEndToEnd == InitEndToEnd /\ [][Next]_vars

(***************************************************************************)
(* llm.py: one call of call_llm.  An exception of generate_content is a    *)
(* record of its type, its message attribute (None when it has none) and   *)
(* its str(); a response is a record of whether reading response.text      *)
(* raises, response.text, and the text of the first part of the first      *)
(* candidate (None when there is no candidate or no part).                 *)
(***************************************************************************)
max_retries == 2
retry_delay_sec == 65

\* (getattr(exc, "message", "") or str(exc)).lower()
ErrorMessage(exc) == Lower(Or(exc.message, exc.text))

_is_quota_error(exc) ==
  \/ Contains(ErrorMessage(exc), "429")
  \/ Contains(ErrorMessage(exc), "resource_exhausted")
  \/ Contains(ErrorMessage(exc), "quota")
  \/ Contains(ErrorMessage(exc), "rate limit")

\* (os.environ.get("GOOGLE_API_KEY") or os.environ.get("GEMINI_API_KEY") or "").strip()
ApiKey(env) == Strip(Or(Or(env.GOOGLE_API_KEY, env.GEMINI_API_KEY), ""))

\* the key is present and is not a placeholder
KeyUsable(env) ==
  /\ ApiKey(env) # ""
  /\ Lower(ApiKey(env)) \notin {"your-api-key-here", "your_api_key_here", ""}

\* what call_llm returns for a response
ResponseText(r) ==
  IF ~r.text_raises /\ Truthy(r.text) THEN r.text
  ELSE IF Truthy(r.part_text) THEN r.part_text
       ELSE ""

\* ShouldRetry with every exception retried while retries are left
ShouldRetry_any_error(exc, n) == n < max_retries

\* the except clause sleeps and continues
ShouldRetry(exc, n) == _is_quota_error(exc) /\ n < max_retries

EnvironDomain ==
  {[GOOGLE_API_KEY |-> g, GEMINI_API_KEY |-> m] :
     g \in {None, "", " key-1 ", "your-api-key-here"},
     m \in {None, "key-2", "YOUR_API_KEY_HERE"}}

ErrorDomain ==
  {[type |-> "ClientError", message |-> "429 Too Many Requests", text |-> "429 Too Many Requests"],
   [type |-> "ClientError", message |-> None, text |-> "RESOURCE_EXHAUSTED"],
   [type |-> "ClientError", message |-> "", text |-> "Quota exceeded for requests per minute"],
   [type |-> "ClientError", message |-> "Rate limit reached", text |-> ""],
   [type |-> "ServerError", message |-> "500 Internal error", text |-> "500 Internal error"],
   [type |-> "ClientError", message |-> "Bad request", text |-> "Bad request (quota project unset)"],
   [type |-> "ValueError", message |-> None, text |-> "contents must not be empty"]}

ResponseDomain ==
  {[text_raises |-> FALSE, text |-> "{\"observations\": []}", part_text |-> "{\"observations\": []}"],
   [text_raises |-> TRUE, text |-> None, part_text |-> "Report"],
   [text_raises |-> FALSE, text |-> None, part_text |-> "Report"],
   [text_raises |-> FALSE, text |-> "", part_text |-> None],
   [text_raises |-> TRUE, text |-> None, part_text |-> ""]}

InitCallLlm ==
  /\ environ \in EnvironDomain
  /\ importable \in BOOLEAN
  /\ pc = "call_llm"
  /\ attempt = 0
  /\ api_attempts = 0
  /\ slept = 0
  /\ last_error = None
  /\ raised = None
  /\ llm_calls = 0
  /\ response = None
  /\ inspection_data = NoData
  /\ thermal_data = NoData
  /\ k = 0
  /\ seen_observations = <<>>
  /\ merged = EmptyMerged
  /\ conflicts = <<>>
  /\ missing_list = <<>>
  /\ passed = <<>>
  /\ inspection_path = NoPath
  /\ thermal_path = NoPath
  /\ output_path = FALSE
  /\ inspection_text = ""
  /\ thermal_text = ""
  /\ report_file = None

\* the key check, the import and the creation of the client
CallLlmSetup ==
  /\ pc = "call_llm"
  /\ llm_calls' = llm_calls + 1
  /\ IF ~KeyUsable(environ)
     THEN raised' = "RuntimeError: API key required" /\ pc' = "raised"
     ELSE IF ~importable
          THEN raised' = "RuntimeError: google-genai package required" /\ pc' = "raised"
          ELSE pc' = "attempt" /\ UNCHANGED raised
  /\ UNCHANGED <<core, front, response, environ, importable, attempt, api_attempts, slept,
                 last_error>>

\* an iteration of the loop in which generate_content returns a response
AttemptReturns ==
  /\ pc = "attempt"
  /\ attempt \in 0..max_retries
  /\ \E r \in ResponseDomain : response' = ResponseText(r)
  /\ api_attempts' = api_attempts + 1
  /\ pc' = "returned"
  /\ UNCHANGED <<core, front, raised, llm_calls, environ, importable, attempt, slept,
                 last_error>>

\* an iteration of the loop in which generate_content raises
AttemptRaises ==
  /\ pc = "attempt"
  /\ attempt \in 0..max_retries
  /\ \E exc \in ErrorDomain :
       /\ last_error' = Or(exc.message, exc.text)
       /\ IF ShouldRetry(exc, attempt)
          THEN /\ slept' = slept + retry_delay_sec
               /\ attempt' = attempt + 1
               /\ UNCHANGED <<pc, raised>>
          ELSE /\ raised' = IF _is_quota_error(exc)
                            THEN "RuntimeError: Gemini API quota exceeded"
                            ELSE exc.type
               /\ pc' = "raised"
               /\ UNCHANGED <<slept, attempt>>
  /\ api_attempts' = api_attempts + 1
  /\ UNCHANGED <<core, front, llm, environ, importable>>

NextCallLlm ==
  \/ CallLlmSetup
  \/ AttemptReturns
  \/ AttemptRaises

SpecCallLlm == InitCallLlm /\ [][NextCallLlm]_vars

\* the call is not suspended for ever: every step of call_llm is taken
SpecCallLlmFair == SpecCallLlm /\ WF_vars(NextCallLlm)

(***************************************************************************)
(* Properties of merge_extractions (specification Spec)                    *)
(***************************************************************************)
\* the extraction and label of the running add_observations call
CurData == IF pc = "add_inspection" THEN inspection_data ELSE thermal_data
CurLabel == IF pc = "add_inspection" THEN "Inspection Report" ELSE "Thermal Report"

\* the loop of add_observations is about to process an observation
InAddLoop ==
  /\ pc \in {"add_inspection", "add_thermal"}
  /\ k < Len(ListOf(CurData, "observations"))

\* that observation, labelled
CurObs == Put(ListOf(CurData, "observations")[k + 1], "source", CurLabel)

\* the seen entry it is resolved against, or 0
HitIdx == FirstHit(CurObs, seen_observations)

\* it matches a seen entry
MatchCase ==
  /\ InAddLoop
  /\ HitIdx # 0
  /\ ~observations_similar_raises(CurObs, seen_observations[HitIdx])

\* it matches a seen entry and the conflict test is true
ConflictCase == MatchCase /\ _has_conflict(CurObs, seen_observations[HitIdx])

\* merge_extractions has just returned
MergeReturned == pc = "temperature_analysis"

\* C1 as stated: when the new observation matches a seen entry and the
\* conflict test is true, a Conflict is appended and the new observation's
\* description, issue_type and source are still folded into the seen entry.
C1_ConflictStillFolds ==
  [][(ConflictCase /\ k' = k + 1) =>
       /\ conflicts' = Append(conflicts, Conflict(seen_observations[HitIdx], CurObs))
       /\ seen_observations'[HitIdx] = _merge_observations(seen_observations[HitIdx], CurObs)]_vars

\* C1 amended: when the new observation matches a seen entry and the
\* conflict test is true, a Conflict holding the seen entry and the new
\* observation is appended and the canonical observations are left exactly
\* as they were (no field is folded); when it matches without conflict, the
\* fields are folded into that entry and no Conflict is appended.
C1_ConflictSkipsFold ==
  [][/\ (ConflictCase /\ k' = k + 1) =>
          /\ conflicts' = Append(conflicts, Conflict(seen_observations[HitIdx], CurObs))
          /\ seen_observations' = seen_observations
          /\ merged'.observations = merged.observations
     /\ (MatchCase /\ ~ConflictCase /\ k' = k + 1) =>
          /\ conflicts' = conflicts
          /\ seen_observations' =
               [seen_observations EXCEPT ![HitIdx] =
                  _merge_observations(seen_observations[HitIdx], CurObs)]
          /\ merged'.observations = seen_observations']_vars

\* a conflict has been recorded against a canonical observation that a
\* fold would have changed, and the merge has returned
C1_Witness ==
  /\ MergeReturned
  /\ \E c \in 1..Len(conflicts), j \in 1..Len(seen_observations) :
       /\ conflicts[c].observation_1 = seen_observations[j]
       /\ _merge_observations(seen_observations[j], conflicts[c].observation_2)
            # seen_observations[j]

\* the scenario of C2: one inspection and one thermal observation
C2_Scenario ==
  /\ ListOf(inspection_data, "observations") = <<ObsVisible>>
  /\ ListOf(thermal_data, "observations") = <<ObsModerate>>

\* C2 as stated: the scenario ends with exactly one merged observation, of
\* urgency issue-type base 4 and confidence 0.85.
C2_OneObservation ==
  (C2_Scenario /\ pc = "done") =>
    /\ Len(merged.observations) = 1
    /\ _observation_urgency_from_issue_type(merged.observations[1]) = 4
    /\ merged.observations[1].confidence = 85

\* C2 amended: the scenario yields two merged observations (the prefixes
\* share no word and neither contains the other): the inspection one, of
\* urgency issue-type base 2 (keyword "staining") and confidence 0.85 by the
\* "visible" override, and the thermal one, of base 4 (keyword "moisture")
\* and confidence 0.65 by the "moderate evidence" override.
C2_TwoObservations ==
  /\ (C2_Scenario /\ MergeReturned) =>
       /\ Len(merged.observations) = 2
       /\ conflicts = <<>>
  /\ (C2_Scenario /\ pc = "done") =>
       /\ Len(merged.observations) = 2
       /\ merged.observations[1].description = ObsVisible.description
       /\ merged.observations[1].source = "Inspection Report"
       /\ _observation_urgency_from_issue_type(merged.observations[1]) = 2
       /\ merged.observations[1].urgency_score = 2
       /\ merged.observations[1].confidence = 85
       /\ merged.observations[1].confidence_reason = "Clear visible or repeated finding"
       /\ merged.observations[2].description = ObsModerate.description
       /\ merged.observations[2].source = "Thermal Report"
       /\ _observation_urgency_from_issue_type(merged.observations[2]) = 4
       /\ merged.observations[2].urgency_score = 4
       /\ merged.observations[2].confidence = 65
       /\ merged.observations[2].confidence_reason = "Moderate evidence"

\* the scenario has run to the end of confidence scoring
C2_Witness == C2_Scenario /\ pc = "done"

\* all the input observations, inspection first
InputObs == ListOf(inspection_data, "observations") \o ListOf(thermal_data, "observations")

\* the word-overlap ratio of two word sets is above 0.3
RatioAboveThreshold(w1, w2) ==
  /\ w1 # {} /\ w2 # {}
  /\ 10 * Cardinality(w1 \cap w2) > 3 * Max(Cardinality(w1), Cardinality(w2))

\* the input is a pair of observations of equal normalized area whose
\* prefixes have a word-overlap ratio above 0.3
C3_Pair ==
  /\ Len(InputObs) = 2
  /\ normalize_area(Get(InputObs[1], "area", "")) = normalize_area(Get(InputObs[2], "area", ""))
  /\ RatioAboveThreshold(Words(Lower(Prefix(SimilarKeyRaw(InputObs[1]), PrefixLen))),
                         Words(Lower(Prefix(SimilarKeyRaw(InputObs[2]), PrefixLen))))

\* C3: a pair of observations (one per source or both in one source) with
\* equal normalized areas and prefix word-overlap ratio above 0.3 merges
\* into exactly one canonical observation.
C3_PairMergesToOne ==
  (MergeReturned /\ C3_Pair) =>
    /\ Len(merged.observations) = 1
    /\ Len(seen_observations) = 1

\* such a pair, one observation per source, similar by word overlap alone
\* (neither prefix contains the other), has been merged
C3_Witness ==
  /\ MergeReturned
  /\ C3_Pair
  /\ Len(ListOf(inspection_data, "observations")) = 1
  /\ ~Contains(SimilarKey(InputObs[1]), SimilarKey(InputObs[2]))
  /\ ~Contains(SimilarKey(InputObs[2]), SimilarKey(InputObs[1]))
  /\ Len(merged.observations) = 1

\* the least position of x in xs
FirstPos(xs, x) == CHOOSE i \in 1..Len(xs) : xs[i] = x /\ \A j \in 1..(i - 1) : xs[j] # x

\* r lists the members of xs that lie in keep, once each, in the order of
\* their first occurrences
IsFirstSeenDedup(r, xs, keep) ==
  /\ \A a, b \in 1..Len(r) : a # b => r[a] # r[b]
  /\ {r[a] : a \in 1..Len(r)} = {xs[i] : i \in 1..Len(xs)} \cap keep
  /\ \A a, b \in 1..Len(r) : a < b => FirstPos(xs, r[a]) < FirstPos(xs, r[b])

AmbiguousIn == ListOf(inspection_data, "ambiguous") \o ListOf(thermal_data, "ambiguous")
MissingIn == ListOf(inspection_data, "missing") \o ListOf(thermal_data, "missing")
EntriesOf(xs) == {xs[i] : i \in 1..Len(xs)}

\* C10 as stated: the merged ambiguous (missing) list is the inspection
\* entries followed by the thermal entries with duplicates removed, first
\* occurrence kept; missing_list is the one followed by the other.
C10_DedupOnly ==
  MergeReturned =>
    /\ IsFirstSeenDedup(merged.ambiguous, AmbiguousIn, EntriesOf(AmbiguousIn))
    /\ IsFirstSeenDedup(merged.missing, MissingIn, EntriesOf(MissingIn))
    /\ missing_list = merged.ambiguous \o merged.missing

\* C10 amended: the merged ambiguous (missing) list is the inspection
\* entries followed by the thermal entries with the empty entries dropped
\* and duplicates removed, first occurrence kept ([A,B] + [B,C] gives
\* [A,B,C]); missing_list is the merged ambiguous list followed by the
\* merged missing list, nothing removed across the two.
C10_DropEmptyAndDedup ==
  MergeReturned =>
    /\ IsFirstSeenDedup(merged.ambiguous, AmbiguousIn, EntriesOf(AmbiguousIn) \ {""})
    /\ IsFirstSeenDedup(merged.missing, MissingIn, EntriesOf(MissingIn) \ {""})
    /\ missing_list = merged.ambiguous \o merged.missing
    /\ Len(missing_list) = Len(merged.ambiguous) + Len(merged.missing)
    /\ (/\ ListOf(inspection_data, "ambiguous") = <<"A", "B">>
        /\ ListOf(thermal_data, "ambiguous") = <<"B", "C">>) =>
         merged.ambiguous = <<"A", "B", "C">>

\* the example lists have been merged, and an entry of both the ambiguous
\* and the missing list appears twice in missing_list
C10_Witness ==
  /\ MergeReturned
  /\ ListOf(inspection_data, "ambiguous") = <<"A", "B">>
  /\ ListOf(thermal_data, "ambiguous") = <<"B", "C">>
  /\ merged.ambiguous = <<"A", "B", "C">>
  /\ Cardinality({i \in 1..Len(missing_list) : missing_list[i] = "B"}) = 2

(***************************************************************************)
(* Properties of compute_temperature_analysis (specification SpecTemp)     *)
(***************************************************************************)
\* compute_temperature_analysis has just returned
AnalysisReturned == pc = "cluster"

\* the two readings of the scenario of C4, the Bedroom reading being x
C4_Scenario(x) ==
  merged.temperatures = <<Reading("Kitchen", "22", "^C"), Reading("Bedroom", x, "^C")>>

\* the analysis of the two readings: reference, the two deltas, the two flags
C4_Result(ref, d1, a1, d2, a2) ==
  LET ta == merged.temperature_analysis
  IN  /\ ta.reference_value = <<ref>>
      /\ Len(ta.readings) = 2
      /\ ta.readings[1].delta = d1 /\ ta.readings[1].delta_c = d1
      /\ ta.readings[1].anomaly = a1
      /\ ta.readings[2].delta = d2 /\ ta.readings[2].delta_c = d2
      /\ ta.readings[2].anomaly = a2

\* C4 as stated: Kitchen 22 and Bedroom 30 give reference 26, deltas -4 and
\* +4, no anomaly; Bedroom 32 gives reference 27 and Bedroom delta +5, no
\* anomaly; Bedroom 33 gives Bedroom delta +6, flagged.
C4_DeltaSix ==
  AnalysisReturned =>
    /\ C4_Scenario("30") => C4_Result(2600, -400, FALSE, 400, FALSE)
    /\ C4_Scenario("32") =>
         /\ merged.temperature_analysis.reference_value = <<2700>>
         /\ merged.temperature_analysis.readings[2].delta = 500
         /\ ~merged.temperature_analysis.readings[2].anomaly
    /\ C4_Scenario("33") =>
         /\ merged.temperature_analysis.readings[2].delta = 600
         /\ merged.temperature_analysis.readings[2].anomaly

\* C4 amended: Kitchen 22 and Bedroom 30 give reference 26, deltas -4 and
\* +4, no anomaly; Bedroom 32 gives reference 27, deltas -5 and +5, no
\* anomaly; Bedroom 33 gives reference 27.5 and Bedroom delta +5.5, flagged
\* (as is Kitchen at -5.5).
C4_DeltaFiveAndHalf ==
  AnalysisReturned =>
    /\ C4_Scenario("30") => C4_Result(2600, -400, FALSE, 400, FALSE)
    /\ C4_Scenario("32") => C4_Result(2700, -500, FALSE, 500, FALSE)
    /\ C4_Scenario("33") => C4_Result(2750, -550, TRUE, 550, TRUE)

\* the scenario with Bedroom 33 has been analysed
C4_Witness == AnalysisReturned /\ C4_Scenario("33")

\* the number of entries of vals below / above x
CountBelow(vals, x) == Cardinality({i \in 1..Len(vals) : vals[i] < x})
CountAbove(vals, x) == Cardinality({i \in 1..Len(vals) : vals[i] > x})

\* the median of a non-empty sequence of values, by rank
MedianOf(vals) ==
  LET n == Len(vals)
      range == {vals[i] : i \in 1..n}
      ranked(b, a) == CHOOSE x \in range : CountBelow(vals, x) <= b /\ CountAbove(vals, x) <= a
  IN  IF n % 2 = 1 THEN ranked((n - 1) \div 2, (n - 1) \div 2)
      ELSE (ranked(n \div 2 - 1, n \div 2) + ranked(n \div 2, n \div 2 - 1)) \div 2

\* the Celsius values of the readings of the analysis
OutputValuesC ==
  LET rs == merged.temperature_analysis.readings
  IN  [i \in 1..Len(rs) |-> _normalize_to_celsius(rs[i].value, rs[i].unit)]

\* the unrounded Celsius delta of reading i of the analysis
RawDelta(i) == OutputValuesC[i] - MedianOf(OutputValuesC)

\* C5 as stated, on the readings of the output: the flag is set exactly
\* when the absolute delta_c exceeds 5.0; delta_c 5.0 is never flagged and
\* delta_c 5.01 always is.
C5_ReportedDelta ==
  AnalysisReturned =>
    \A i \in 1..Len(merged.temperature_analysis.readings) :
      merged.temperature_analysis.readings[i].anomaly
        <=> Abs(merged.temperature_analysis.readings[i].delta_c) > 500

\* C5 amended: the flag is set exactly when the absolute unrounded Celsius
\* delta from the reference exceeds the threshold; an unrounded delta of
\* exactly 5.0 is never flagged; a reading that reports delta_c 5.01 or more
\* is always flagged and one that reports 4.99 or less never is (a reading
\* that reports the rounded delta_c 5.0 may be flagged).
C5_UnroundedDelta ==
  AnalysisReturned =>
    \A i \in 1..Len(merged.temperature_analysis.readings) :
      LET r == merged.temperature_analysis.readings[i]
      IN  /\ r.anomaly <=> Abs(RawDelta(i)) > DEFAULT_ANOMALY_THRESHOLD_C
          /\ Abs(RawDelta(i)) = DEFAULT_ANOMALY_THRESHOLD_C => ~r.anomaly
          /\ Abs(r.delta_c) >= 501 => r.anomaly
          /\ Abs(r.delta_c) <= 499 => ~r.anomaly

\* a reading exactly 5.0 below the reference has been left unflagged
C5_Witness ==
  /\ AnalysisReturned
  /\ \E i \in 1..Len(merged.temperature_analysis.readings) :
       /\ RawDelta(i) = -DEFAULT_ANOMALY_THRESHOLD_C
       /\ ~merged.temperature_analysis.readings[i].anomaly

\* the readings of the input whose value parses
ParsingInputs ==
  SelectSeq(merged.temperatures, LAMBDA t : _parse_value(Get(t, "value", None)) # <<>>)

\* their Celsius values
InputValuesC ==
  [i \in 1..Len(ParsingInputs) |->
     _normalize_to_celsius(_parse_value(ParsingInputs[i].value)[1], ReadingUnit(ParsingInputs[i]))]

\* the raw values of the input are exactly those of vs, all in Celsius
C6_Example(vs) ==
  /\ Len(merged.temperatures) = Cardinality(vs)
  /\ {merged.temperatures[i].value : i \in 1..Len(merged.temperatures)} = vs
  /\ \A i \in 1..Len(merged.temperatures) : ~IsFahrenheit(merged.temperatures[i].unit)

\* C6: the reference is the median by rank of the Celsius values of the
\* readings that parse, whatever their order, reported in the unit of the
\* first of them; readings that do not parse are dropped; when none parses
\* the reference value and unit are null and there are no readings;
\* [10,20,30] gives 20 and [10,20] gives 15.
C6_ReferenceIsMedian ==
  AnalysisReturned =>
    LET ta == merged.temperature_analysis
    IN  /\ IF ParsingInputs = <<>>
           THEN /\ ta.reference_value = <<>>
                /\ ta.reference_unit = None
                /\ ta.readings = <<>>
           ELSE /\ ta.reference_unit = ReadingUnit(ParsingInputs[1])
                /\ ta.reference_value
                     = <<RoundedOriginal(MedianOf(InputValuesC), ReadingUnit(ParsingInputs[1]))>>
                /\ Len(ta.readings) = Len(ParsingInputs)
                /\ \A i \in 1..Len(ParsingInputs) :
                     /\ ta.readings[i].location = ParsingInputs[i].location
                     /\ ta.readings[i].value = _parse_value(ParsingInputs[i].value)[1]
        /\ C6_Example({"10", "20", "30"}) => ta.reference_value = <<2000>>
        /\ C6_Example({"10", "20"}) => ta.reference_value = <<1500>>

\* three readings were analysed: the first does not parse, the second is
\* in Fahrenheit and warmer than the third, and the reference is reported
\* in Fahrenheit
C6_Witness ==
  /\ AnalysisReturned
  /\ Len(merged.temperatures) = 3
  /\ _parse_value(merged.temperatures[1].value) = <<>>
  /\ Len(merged.temperature_analysis.readings) = 2
  /\ IsFahrenheit(merged.temperature_analysis.reference_unit)
  /\ ~IsFahrenheit(merged.temperature_analysis.readings[2].unit)
  /\ OutputValuesC[1] > OutputValuesC[2]

(***************************************************************************)
(* Properties of cluster_observations (specification SpecCluster)          *)
(***************************************************************************)
\* cluster_observations has just returned
ClusterReturned == pc = "urgency"

\* the grouping key: normalized area | normalized issue_type-or-description-prefix
GroupingKey(o) ==
  cluster_normalize(Get(o, "area", "")) \o "|"
    \o cluster_normalize(Or(Get(o, "issue_type", None),
                            Prefix(Get(o, "description", ""), PrefixLen)))

\* C7: cluster ids are cluster_1 .. cluster_k in the order in which the
\* grouping keys are first encountered; every observation has a cluster_id;
\* two observations share cluster_id and cluster_label exactly when their
\* grouping keys are equal; the index lists are ascending and partition
\* 0..n-1.
C7_ClustersFollowKeys ==
  ClusterReturned =>
    LET obs == merged.observations
        cl == merged.clusters
        n == Len(obs)
        idx(c) == cl[c].observation_indices
    IN  /\ \A c \in 1..Len(cl) :
             /\ cl[c].cluster_id = "cluster_" \o ToString(c)
             /\ Len(idx(c)) >= 1
             /\ \A a, b \in 1..Len(idx(c)) : a < b => idx(c)[a] < idx(c)[b]
             /\ \A a \in 1..Len(idx(c)) : idx(c)[a] \in 0..(n - 1)
             /\ \A i \in 1..idx(c)[1] : GroupingKey(obs[i]) # GroupingKey(obs[idx(c)[1] + 1])
        /\ \A c, d \in 1..Len(cl) : c < d => idx(c)[1] < idx(d)[1]
        /\ \A i \in 1..n :
             /\ "cluster_id" \in DOMAIN obs[i]
             /\ obs[i].cluster_id # None
             /\ Cardinality({c \in 1..Len(cl) : \E a \in 1..Len(idx(c)) : idx(c)[a] = i - 1}) = 1
             /\ \A c \in 1..Len(cl) :
                  (\E a \in 1..Len(idx(c)) : idx(c)[a] = i - 1) =>
                    /\ obs[i].cluster_id = cl[c].cluster_id
                    /\ obs[i].cluster_label = cl[c].label
        /\ \A i, j \in 1..n :
             (obs[i].cluster_id = obs[j].cluster_id /\ obs[i].cluster_label = obs[j].cluster_label)
               <=> GroupingKey(obs[i]) = GroupingKey(obs[j])

\* three observations were clustered, the first and the third into one
\* cluster, the second into another
C7_Witness ==
  /\ ClusterReturned
  /\ Len(merged.clusters) = 2
  /\ merged.clusters[1].observation_indices = <<0, 2>>
  /\ merged.observations[1].area # merged.observations[3].area

(***************************************************************************)
(* Properties of score_urgency (specification SpecUrgency)                 *)
(***************************************************************************)
\* score_urgency has just returned
UrgencyReturned == pc = "root_cause"

\* C8: every observation score_urgency returns carries an integer
\* urgency_score between 1 and 5 and a non-empty urgency_reason.
C8_UrgencyInRange ==
  UrgencyReturned =>
    \A i \in 1..Len(merged.observations) :
      /\ merged.observations[i].urgency_score \in 1..5
      /\ merged.observations[i].urgency_reason \notin {"", None}

\* an observation whose three components add up to more than 5 was scored,
\* next to one with empty fields
C8_Witness ==
  /\ UrgencyReturned
  /\ \E i, j \in 1..Len(merged.observations) :
       /\ _observation_urgency_from_issue_type(merged.observations[i])
            + _observation_urgency_from_severity(merged.observations[i], merged.severity_mentions)
            + _thermal_anomaly_boost(merged.observations[i], merged.temperature_analysis) > 5
       /\ merged.observations[i].urgency_score = 5
       /\ ~Truthy(merged.observations[j].description)
       /\ merged.observations[j].urgency_score = 2

(***************************************************************************)
(* Properties of score_confidence (specification SpecConfidence)           *)
(***************************************************************************)
\* score_confidence has just returned
ConfidenceReturned == pc = "done"

\* C9: every observation score_confidence returns carries a confidence
\* within [0,1] that is one of 0.85, 0.65, 0.45, 0.5, 0.9, 0.7, and a
\* non-empty confidence_reason.
C9_ConfidenceValues ==
  ConfidenceReturned =>
    \A i \in 1..Len(merged.observations) :
      /\ merged.observations[i].confidence \in {85, 65, 45, 50, 90, 70}
      /\ merged.observations[i].confidence >= 0
      /\ merged.observations[i].confidence <= 100
      /\ merged.observations[i].confidence_reason \notin {"", None}

\* one observation was scored 0.9 for its two sources and another 0.5 for
\* its conflict
C9_Witness ==
  /\ ConfidenceReturned
  /\ conflicts # <<>>
  /\ \E i, j \in 1..Len(merged.observations) :
       /\ merged.observations[i].confidence = 90
       /\ merged.observations[j].confidence = 50


(***************************************************************************)
(* Properties of run_pipeline after the merge (specification Spec)         *)
(***************************************************************************)
\* a stage of run_pipeline that rebinds merged["observations"] is at its call
AtListStage == pc \in {"cluster", "urgency", "root_cause", "confidence"}

\* the two lists have the same length and, index by index, the same area
\* and description
SameOrder(before, after) ==
  /\ Len(after) = Len(before)
  /\ \A i \in 1..Len(before) :
       /\ Get(after[i], "area", None) = Get(before[i], "area", None)
       /\ Get(after[i], "description", None) = Get(before[i], "description", None)

\* every observation index of every cluster is an index of the list, and the
\* observation there carries that cluster's id
IndicesDesignate(m) ==
  \A c \in 1..Len(Get(m, "clusters", <<>>)) :
    \A n \in 1..Len(m.clusters[c].observation_indices) :
      LET i == m.clusters[c].observation_indices[n]
      IN  /\ i + 1 \in 1..Len(m.observations)
          /\ Get(m.observations[i + 1], "cluster_id", None) = m.clusters[c].cluster_id

\* C11: each of cluster_observations, score_urgency, infer_root_causes and
\* score_confidence, when it returns, has rebound merged["observations"] to a
\* list of the same length with the same area and description at every
\* index, and every cluster's observation_indices designate, in the list as
\* it is then, the observations that carry the cluster's id.
C11_OrderStable ==
  [][(AtListStage /\ pc' # "raised") =>
       /\ SameOrder(merged.observations, merged'.observations)
       /\ IndicesDesignate(merged')]_vars

\* the pipeline has finished on at least two observations grouped into at
\* least two clusters, the first observations of which differ in area
C11_Witness ==
  /\ pc = "done"
  /\ Len(merged.observations) >= 2
  /\ Len(merged.clusters) >= 2
  /\ Get(merged.observations[1], "area", None) # Get(merged.observations[2], "area", None)


IsEmptyExtraction(data) ==
  /\ ListOf(data, "observations") = <<>>
  /\ ListOf(data, "temperatures") = <<>>
  /\ ListOf(data, "severity_mentions") = <<>>
  /\ ListOf(data, "ambiguous") = <<>>
  /\ ListOf(data, "missing") = <<>>

\* C13: the core never raises on absent or partial data: no run of
\* merge_extractions, cluster_observations, score_urgency and
\* score_confidence on observations with absent or null area, description,
\* issue_type or source ends with a TypeError, and merge_extractions on two
\* None or empty extractions returns empty lists, no conflicts and an empty
\* missing_list.
C13_CoreNeverRaises ==
  /\ raised # "TypeError"
  /\ (MergeReturned /\ IsEmptyExtraction(inspection_data) /\ IsEmptyExtraction(thermal_data)) =>
       /\ merged = EmptyMerged
       /\ conflicts = <<>>
       /\ missing_list = <<>>


(***************************************************************************)
(* Properties of run_pipeline (specification SpecPipeline)                 *)
(***************************************************************************)
\* the document yields no text: no path, parse_document raises, or the text
\* it holds is blank
YieldsNoText(doc) ==
  \/ doc = NoPath
  \/ parse_document_raises(doc) # None
  \/ \A i \in 1..Len(doc.text) : IsSpace(Char(doc.text, i))

\* run_pipeline has not yet passed its test of the two texts
BeforeExtraction == pc \in {"parse_inspection", "parse_thermal", "require_document"}

\* no extraction, no call of the collaborator, no merge step and no output
\* file so far
NothingDone ==
  /\ llm_calls = 0
  /\ response = None
  /\ inspection_data = NoData
  /\ thermal_data = NoData
  /\ seen_observations = <<>>
  /\ merged = EmptyMerged
  /\ conflicts = <<>>
  /\ report_file = None

\* C14: when neither document yields text, run_pipeline ends with the
\* ValueError and nothing has been extracted, asked of the collaborator,
\* merged or written; the ValueError is raised in no other case; when only
\* one document yields no text the run goes on without an exception from the
\* parser, with no extraction of that document.
C14_NoUsableInput ==
  /\ BeforeExtraction => NothingDone /\ raised = None
  /\ (~BeforeExtraction /\ YieldsNoText(inspection_path) /\ YieldsNoText(thermal_path)) =>
       pc = "raised" /\ raised = "ValueError" /\ NothingDone
  /\ raised = "ValueError" => YieldsNoText(inspection_path) /\ YieldsNoText(thermal_path)
  /\ raised \notin {"FileNotFoundError"}
  /\ (~BeforeExtraction /\ YieldsNoText(inspection_path) /\ ~YieldsNoText(thermal_path)) =>
       /\ inspection_data = NoData
       /\ pc \notin {"extract_inspection", "extract_thermal", "raised"} =>
            thermal_data # NoData /\ llm_calls >= 1
  /\ (~BeforeExtraction /\ ~YieldsNoText(inspection_path) /\ YieldsNoText(thermal_path)) =>
       /\ thermal_data = NoData
       /\ pc \notin {"extract_inspection", "raised"} =>
            inspection_data # NoData /\ llm_calls >= 1

\* the run has ended with the ValueError although both paths were given:
\* parse_document raised on one document and the other holds blank text
C14_Witness ==
  /\ pc = "raised"
  /\ raised = "ValueError"
  /\ inspection_path # NoPath
  /\ thermal_path # NoPath
  /\ parse_document_raises(inspection_path) # None
  /\ parse_document_raises(thermal_path) = None

\* the run has returned on the thermal document alone, parse_document
\* having raised on the inspection document
C14_WitnessOneDocument ==
  /\ pc = "returned"
  /\ inspection_path # NoPath
  /\ parse_document_raises(inspection_path) # None
  /\ thermal_data # NoData


\* the responses of the model that are well-formed structured results: a
\* JSON object, bare or fenced
WellFormedResponses ==
  {r \in ExtractionResponses \cup RootCauseResponses :
     \E t \in {JsonHall, JsonScan, JsonInference} : Contains(r, t)}

\* the placeholder of extract_from_document: nothing but one ambiguous note
IsPlaceholder(data) ==
  /\ data # NoData
  /\ data.observations = <<>>
  /\ data.temperatures = <<>>
  /\ data.severity_mentions = <<>>
  /\ data.missing = <<>>
  /\ Len(data.ambiguous) = 1

\* the observations are those of before, each with the default root cause
\* and no evidence
DefaultAnnotated(before, after) ==
  /\ SameOrder(before, after)
  /\ \A i \in 1..Len(after) :
       after[i].root_cause = DefaultRootCause /\ after[i].evidence = <<>>

\* C15: whenever call_llm returns, to extract_from_document or to
\* infer_root_causes, a text that is not a well-formed structured result, no
\* exception ends the run: extract_from_document returns the placeholder
\* (empty observations, temperatures, severity_mentions and missing, one
\* ambiguous note) and infer_root_causes returns every observation with the
\* default root cause and empty evidence.
C15_MalformedResponseAbsorbed ==
  [][(/\ pc \in {"extract_inspection", "extract_thermal", "root_cause"}
      /\ llm_calls' = llm_calls + 1
      /\ raised' # "RuntimeError"
      /\ response' \notin WellFormedResponses) =>
       /\ raised' = None
       /\ pc = "extract_inspection" => IsPlaceholder(inspection_data')
       /\ pc = "extract_thermal" => IsPlaceholder(thermal_data')
       /\ pc = "root_cause" => DefaultAnnotated(merged.observations, merged'.observations)]_vars


(***************************************************************************)
(* Properties of observations_similar (specification SpecSimilar)          *)
(***************************************************************************)
\* the two observations compared
PairA == inspection_data.observations[1]
PairB == thermal_data.observations[1]

\* the thermal observation has been processed
PairDecided == pc = "add_thermal" /\ k = 1

\* it was judged similar to the inspection one: it was not appended
PairJudgedSimilar == Len(seen_observations) = 1

SameArea(a, b) ==
  LET NormArea(o) == IF Get(o, "area", "") \in {None, ""} THEN ""
                     ELSE Lower(Strip(Get(o, "area", "")))
  IN  NormArea(a) = NormArea(b)

\* the field the prefix is taken from: issue_type when it is non-empty,
\* else description
PrefixField(o) ==
  IF Get(o, "issue_type", None) \notin {None, ""} THEN o.issue_type
  ELSE Get(o, "description", "")

SubstringEitherWay(p, q) == Contains(p, q) \/ Contains(q, p)

\* prefix as C16 states it: the whole issue_type, or description cut at 50
StatedPrefix(o) ==
  IF Get(o, "issue_type", None) \notin {None, ""} THEN Lower(o.issue_type)
  ELSE Lower(SubSeq(PrefixField(o), 1, Min(50, Len(PrefixField(o)))))

\* C16 as stated: the two observations are similar if and only if their
\* normalized areas are equal and the word sets of their prefixes have
\* Jaccard ratio |A n B| / |A u B| above 0.3, or one prefix is a substring of
\* the other, or both prefixes are empty.
C16_JaccardSimilarity ==
  (PairDecided /\ PrefixField(PairA) # None /\ PrefixField(PairB) # None) =>
    LET p == StatedPrefix(PairA)
        q == StatedPrefix(PairB)
    IN  PairJudgedSimilar <=>
          /\ SameArea(PairA, PairB)
          /\ \/ 10 * Cardinality(Words(p) \cap Words(q)) > 3 * Cardinality(Words(p) \cup Words(q))
             \/ SubstringEitherWay(p, q)
             \/ p = "" /\ q = ""

\* prefix as the code takes it: the first 50 characters of the field
CutPrefix(o) == Lower(SubSeq(PrefixField(o), 1, Min(50, Len(PrefixField(o)))))

\* the comparison raises: the areas are equal and a prefix field is null
PairRaises == SameArea(PairA, PairB) /\ (PrefixField(PairA) = None \/ PrefixField(PairB) = None)

\* C16 amended: the two observations are similar if and only if their
\* normalized areas are equal and a prefix is empty, or the shared words of
\* the prefixes are more than 0.3 of the larger word set, or one prefix is a
\* substring of the other, where a prefix is the first 50 characters, lower
\* case, of issue_type when non-empty and else of description; with equal
\* areas and a null prefix field the comparison raises TypeError instead.
C16_LargerSetOverlap ==
  /\ (PairDecided /\ ~PairRaises) =>
       LET p == CutPrefix(PairA)
           q == CutPrefix(PairB)
           A == Words(p)
           B == Words(q)
           larger == IF Cardinality(A) > Cardinality(B) THEN Cardinality(A) ELSE Cardinality(B)
       IN  PairJudgedSimilar <=>
             /\ SameArea(PairA, PairB)
             /\ \/ p = "" \/ q = ""
                \/ 10 * Cardinality(A \cap B) > 3 * larger
                \/ SubstringEitherWay(p, q)
  /\ pc = "raised" <=> (PairRaises /\ pc \notin {"add_inspection"} /\ ~(pc = "add_thermal" /\ k = 0))

\* two observations of equal area were judged similar on one shared word
\* of three on each side: 1/3 of the larger set, 1/5 of the union
C16_Witness ==
  /\ PairDecided
  /\ PairJudgedSimilar
  /\ ~SubstringEitherWay(CutPrefix(PairA), CutPrefix(PairB))
  /\ Cardinality(Words(CutPrefix(PairA)) \cap Words(CutPrefix(PairB))) = 1
  /\ Cardinality(Words(CutPrefix(PairA)) \cup Words(CutPrefix(PairB))) = 5


(***************************************************************************)
(* Properties of the merge loop (specification SpecGreedy)                 *)
(***************************************************************************)
\* the seen entries, in insertion order, that are similar to the observation
\* being processed
SimilarSeen == {i \in 1..Len(seen_observations) : observations_similar(CurObs, seen_observations[i])}

\* C17: the merge is a greedy single pass. The thermal observations are
\* processed after all inspection observations and the inspection loop is
\* never resumed; every iteration processes the next observation of its
\* list; the observation is resolved against the first similar seen entry:
\* no other seen entry changes, that entry is left as it is (conflict) or
\* combined with the observation, and the conflicts recorded before stay; an
\* observation with no similar seen entry is appended after the others.
C17_GreedySinglePass ==
  [][/\ pc = "add_thermal" => pc' # "add_inspection"
     /\ (pc = "add_inspection" /\ pc' = "add_thermal") =>
          k = Len(ListOf(inspection_data, "observations"))
     /\ (InAddLoop /\ pc' # "raised") =>
          /\ k' = k + 1
          /\ pc' = pc
          /\ merged'.observations = seen_observations'
          /\ SubSeq(conflicts', 1, Len(conflicts)) = conflicts
          /\ IF SimilarSeen = {}
             THEN seen_observations' = Append(seen_observations, CurObs)
             ELSE LET first == CHOOSE i \in SimilarSeen : \A j \in SimilarSeen : i <= j
                  IN  /\ Len(seen_observations') = Len(seen_observations)
                      /\ \A i \in 1..Len(seen_observations) :
                           i # first => seen_observations'[i] = seen_observations[i]
                      /\ seen_observations'[first] \in
                           {seen_observations[first],
                            _merge_observations(seen_observations[first], CurObs)}]_vars

\* the merge has returned with two canonical observations after a third
\* inspection observation, similar to both, was combined into the first one
\* and left the second as it was
C17_Witness ==
  /\ MergeReturned
  /\ Len(ListOf(inspection_data, "observations")) = 3
  /\ thermal_data.observations = <<>>
  /\ Len(seen_observations) = 2
  /\ LET o1 == Put(inspection_data.observations[1], "source", "Inspection Report")
         o2 == Put(inspection_data.observations[2], "source", "Inspection Report")
         o3 == Put(inspection_data.observations[3], "source", "Inspection Report")
     IN  /\ observations_similar(o3, o1)
         /\ observations_similar(o3, o2)
         /\ seen_observations[1] = _merge_observations(o1, o3)
         /\ seen_observations[1] # o1
         /\ seen_observations[2] = o2


(***************************************************************************)
(* Properties of score_urgency (specification SpecUrgency)                 *)
(***************************************************************************)
\* the keywords and their scores in the order C18 lists them
StatedKeywords ==
  <<"moisture", "water", "mold", "plumbing", "electrical", "structural", "safety", "heat loss",
    "insulation", "anomaly", "thermal", "damage", "crack", "leak", "defect", "cosmetic",
    "staining", "wear">>

StatedScores == <<4, 4, 4, 4, 4, 4, 5, 3, 3, 3, 3, 3, 2, 4, 2, 1, 2, 2>>

\* a field as the scan reads it: null or absent is empty, stripped, lower case
ScanField(obs, f) ==
  IF Get(obs, f, "") \in {None, ""} THEN "" ELSE Lower(Strip(obs[f]))

\* the issue_type, a space, and the first 100 characters of the description
ScannedText(obs) ==
  Local(ScanField(obs, "description"),
        LAMBDA d : ScanField(obs, "issue_type") \o " "
                     \o SubSeq(d, 1, IF Len(d) < 100 THEN Len(d) ELSE 100))

\* the positions of the listed keywords that occur in the scanned text
KeywordsIn(obs) ==
  Local(ScannedText(obs),
        LAMBDA t : {i \in 1..Len(StatedKeywords) : Contains(t, StatedKeywords[i])})

\* the base C18 states: the score of the earliest listed keyword that
\* occurs, 2 when none does
StatedBase(obs) ==
  Local(KeywordsIn(obs),
        LAMBDA ks : IF ks = {} THEN 2
                    ELSE StatedScores[CHOOSE i \in ks : \A j \in ks : i <= j])

\* C18: the urgency issue-type base of every observation is the score of
\* the first keyword, in the listed order, that is a substring of the
\* lower-cased issue_type followed by the first 100 characters of the
\* description, and 2 when no keyword occurs: the urgency score is that base
\* plus the severity and thermal boosts, limited to 1..5, and the reason
\* names a high-impact issue type exactly when the base is at least 4.
C18_FirstKeywordWins ==
  UrgencyReturned =>
    \A i \in 1..Len(merged.observations) :
      LET obs == merged.observations[i]
          sev == _observation_urgency_from_severity(obs, merged.severity_mentions)
          thermal == _thermal_anomaly_boost(obs, merged.temperature_analysis)
      IN  Local(StatedBase(obs),
                LAMBDA base :
                  /\ Local(base + sev + thermal,
                           LAMBDA total :
                             obs.urgency_score =
                               (IF total > 5 THEN 5 ELSE IF total < 1 THEN 1 ELSE total))
                  /\ Contains(obs.urgency_reason, "high-impact issue type") <=> base >= 4)

\* an observation in which "crack" (2) and "leak" (4) both occur was scored
\* 2 without boosts, and one whose only keyword lies beyond the first 100
\* characters of its description was scored the default
C18_Witness ==
  /\ UrgencyReturned
  /\ Len(merged.observations) = 2
  /\ {13, 14} \subseteq KeywordsIn(merged.observations[1])
  /\ merged.observations[1].urgency_score = 2
  /\ KeywordsIn(merged.observations[2]) = {}
  /\ Contains(urgency_normalize(merged.observations[2].description), "mold")
  /\ merged.observations[2].urgency_score = 2


\* the text the overrides are matched against: lower-cased area,
\* description and issue_type
OverrideText(obs) ==
  Lower(StrippedField(obs, "area")) \o " " \o Lower(StrippedField(obs, "description")) \o " "
    \o Lower(StrippedField(obs, "issue_type"))

\* override n of the seven, as C19 numbers them
StatedOverride(n, t) ==
  LET has(w) == Contains(t, w)
  IN  CASE n = 1 -> (has("visible") \/ has("repeated"))
                      /\ (has("damp") \/ has("moisture") \/ has("leak") \/ has("damage"))
        [] n = 2 -> has("skirting") /\ (has("damp") \/ has("dampness") \/ has("moisture"))
        [] n = 3 -> has("parking") /\ has("ceiling")
                      /\ (has("leak") \/ has("leakage") \/ has("water"))
        [] n = 4 -> has("moderate") /\ (has("evidence") \/ has("sign") \/ has("damage"))
        [] n = 5 -> has("tile") /\ (has("hollow") \/ has("hollowness"))
        [] n = 6 -> has("unclear") \/ has("vague")
        [] n = 7 -> /\ has("damage")
                    /\ ~(has("moisture") \/ has("leak") \/ has("crack") \/ has("structural")
                           \/ has("water"))
                    /\ (has("bedroom") \/ has("bathroom") \/ has("room") \/ has("ceiling")
                          \/ has("wall"))

\* the values C19 states for overrides 1..7, in hundredths
StatedOverrideValues == <<85, 85, 85, 65, 65, 45, 45>>

\* the overrides that match an observation
OverridesOf(obs) == Local(OverrideText(obs), LAMBDA t : {n \in 1..7 : StatedOverride(n, t)})

\* (area, first 80 characters of the description) of obs is that of an
\* observation snapshot of some conflict
InConflictSet(obs, confl) ==
  \E c \in 1..Len(confl) : \E o \in {confl[c].observation_1, confl[c].observation_2} :
    /\ StrippedField(o, "area") = StrippedField(obs, "area")
    /\ Prefix(StrippedField(o, "description"), 80) = Prefix(StrippedField(obs, "description"), 80)

\* the decision list of C19, in hundredths
StatedConfidence(obs, confl) ==
  Local(OverridesOf(obs),
        LAMBDA ns : IF ns # {}
                    THEN StatedOverrideValues[CHOOSE n \in ns : \A m \in ns : n <= m]
                    ELSE IF InConflictSet(obs, confl) THEN 50
                         ELSE IF Cardinality(_sources(obs)) >= 2 THEN 90 ELSE 70)

\* C19: score_confidence is a first-match decision list: the first of the
\* seven content overrides, in the order 1..7, that matches the lower-cased
\* area, description and issue_type fixes the value (0.85, 0.85, 0.85, 0.65,
\* 0.65, 0.45, 0.45); only if none matches does membership in the conflict
\* set give 0.5, otherwise two or more distinct source labels give 0.9 and
\* anything else 0.7.  A content override takes precedence over conflict
\* status and source count.
C19_FirstMatchDecisionList ==
  ConfidenceReturned =>
    \A i \in 1..Len(merged.observations) :
      merged.observations[i].confidence = StatedConfidence(merged.observations[i], conflicts)

\* an observation of the conflict set to which overrides 5 and 6 apply was
\* scored 0.65, and one with two sources to which overrides 1, 4 and 6 apply
\* was scored 0.85
C19_Witness ==
  /\ ConfidenceReturned
  /\ Len(merged.observations) = 2
  /\ OverridesOf(merged.observations[1]) = {5, 6}
  /\ InConflictSet(merged.observations[1], conflicts)
  /\ merged.observations[1].confidence = 65
  /\ {1, 4, 6} \subseteq OverridesOf(merged.observations[2])
  /\ Cardinality(_sources(merged.observations[2])) = 2
  /\ merged.observations[2].confidence = 85

\* an observation of the conflict set to which only override 7 applies, with
\* two sources, was scored 0.45
C19_WitnessLastOverride ==
  /\ ConfidenceReturned
  /\ \E i \in 1..Len(merged.observations) :
       /\ OverridesOf(merged.observations[i]) = {7}
       /\ InConflictSet(merged.observations[i], conflicts)
       /\ Cardinality(_sources(merged.observations[i])) = 2
       /\ merged.observations[i].confidence = 45


(***************************************************************************)
(* Disposal of the input observations (specification SpecGreedy)           *)
(***************************************************************************)
\* every input observation with the label of its report, inspection first
LabelledInputs ==
  [i \in 1..Len(ListOf(inspection_data, "observations")) |->
     Put(ListOf(inspection_data, "observations")[i], "source", "Inspection Report")]
    \o [i \in 1..Len(ListOf(thermal_data, "observations")) |->
          Put(ListOf(thermal_data, "observations")[i], "source", "Thermal Report")]

\* how observation o is disposed of against the canonical list s: the way,
\* and the canonical observation concerned
DisposalIn(s, o) ==
  LET hits == {i \in 1..Len(s) : observations_similar(o, s[i])}
      j == CHOOSE i \in hits : \A h \in hits : i <= h
  IN  IF hits = {} THEN <<"appended", 0>>
      ELSE IF _has_conflict(o, s[j]) THEN <<"conflict", j>> ELSE <<"folded", j>>

\* the canonical list s after observation o has been disposed of
DisposedInto(s, o) ==
  Local(DisposalIn(s, o),
        LAMBDA d : IF d[1] = "appended" THEN Append(s, o)
                   ELSE IF d[1] = "folded"
                        THEN [s EXCEPT ![d[2]] = _merge_observations(s[d[2]], o)]
                        ELSE s)

RECURSIVE CanonicalAfter(_)
\* the canonical list after the first n input observations
CanonicalAfter(n) ==
  IF n = 0 THEN <<>> ELSE DisposedInto(CanonicalAfter(n - 1), LabelledInputs[n])

\* the input observations disposed of in the given way
DisposedAs(way) ==
  {n \in 1..Len(LabelledInputs) : DisposalIn(CanonicalAfter(n - 1), LabelledInputs[n])[1] = way}

\* the three disposals of the observation being processed, as steps
StepAppends ==
  /\ seen_observations' = Append(seen_observations, CurObs)
  /\ conflicts' = conflicts

StepFolds ==
  /\ conflicts' = conflicts
  /\ Len(seen_observations') = Len(seen_observations)
  /\ \E j \in SimilarSeen :
       seen_observations' =
         [seen_observations EXCEPT ![j] = _merge_observations(seen_observations[j], CurObs)]

StepRecordsConflict ==
  /\ seen_observations' = seen_observations
  /\ Len(conflicts') = Len(conflicts) + 1
  /\ SubSeq(conflicts', 1, Len(conflicts)) = conflicts
  /\ conflicts'[Len(conflicts')].observation_2 = CurObs
  /\ \E j \in SimilarSeen : conflicts'[Len(conflicts')].observation_1 = seen_observations[j]

\* C20: in merge_extractions every input observation, inspection or
\* thermal, is disposed of in exactly one of three ways: appended as a new
\* canonical observation, folded into one existing canonical observation, or
\* recorded as observation_2 of one Conflict; and when merge_extractions
\* returns, the number of merged observations plus the number of
\* non-conflicting merges plus the number of conflicts is the number of input
\* observations, and the merged observations are no more than the inputs.
C20_EveryInputDisposedOnce ==
  [][/\ (InAddLoop /\ pc' # "raised") =>
          /\ StepAppends \/ StepFolds \/ StepRecordsConflict
          /\ ~(StepAppends /\ StepFolds)
          /\ ~(StepAppends /\ StepRecordsConflict)
          /\ ~(StepFolds /\ StepRecordsConflict)
          /\ Len(seen_observations') + Len(conflicts') <= Len(seen_observations) + Len(conflicts) + 1
     /\ (pc = "add_thermal" /\ pc' = "temperature_analysis") =>
          /\ Len(merged'.observations) + Cardinality(DisposedAs("folded")) + Len(conflicts')
               = Len(LabelledInputs)
          /\ Len(merged'.observations) = Cardinality(DisposedAs("appended"))
          /\ Len(conflicts') = Cardinality(DisposedAs("conflict"))
          /\ Len(merged'.observations) <= Len(LabelledInputs)]_vars

\* merge_extractions has returned after inspection and thermal observations
\* of which some were appended, one was folded and one recorded as a conflict
C20_Witness ==
  /\ MergeReturned
  /\ ListOf(thermal_data, "observations") # <<>>
  /\ Len(merged.observations) >= 2
  /\ DisposedAs("folded") # {}
  /\ Len(conflicts) >= 1
  /\ Len(merged.observations) + Cardinality(DisposedAs("folded")) + Len(conflicts)
       = Len(LabelledInputs)


ResolvedAgainst(n) == DisposalIn(CanonicalAfter(n - 1), LabelledInputs[n])[2]

\* canonical observation j was the observation_1 of a recorded Conflict
WasConflicted(j) == \E n \in DisposedAs("conflict") : ResolvedAgainst(n) = j

\* C22: from merge_extractions to score_confidence with the merge's
\* conflict list, every canonical observation that was the observation_1 of
\* at least one recorded Conflict, and whose text matches none of the seven
\* content overrides, receives confidence 0.5 with the reason "Conflicting
\* reports for this finding", whatever was processed after the conflict.
C22_ConflictedScoredHalf ==
  ConfidenceReturned =>
    \A j \in 1..Len(merged.observations) :
      (WasConflicted(j) /\ OverridesOf(merged.observations[j]) = {}) =>
        /\ merged.observations[j].confidence = 50
        /\ merged.observations[j].confidence_reason = "Conflicting reports for this finding"


\* the three values a merged observation's source can have
MergedSourceLabels ==
  {"Inspection Report", "Thermal Report", "Inspection Report; Thermal Report"}

\* the input observations that make up canonical observation j: the one
\* appended as j and those folded into j
CombinedInto(j) ==
  {n \in DisposedAs("appended") : Len(CanonicalAfter(n)) = j}
    \cup {n \in DisposedAs("folded") : ResolvedAgainst(n) = j}

\* input n is an inspection finding
FromInspection(n) == n <= Len(ListOf(inspection_data, "observations"))

\* C23: every merged observation's source is exactly "Inspection Report",
\* "Thermal Report" or "Inspection Report; Thermal Report", a source label
\* supplied by the extractor being overwritten, and score_confidence assigns
\* 0.9 ("Multiple sources agree") only to an observation into which at least
\* one inspection finding and at least one thermal finding were combined
\* without conflict; findings of one document alone never yield 0.9.
C23_SourceLabelsAndAgreement ==
  /\ \A j \in 1..Len(merged.observations) :
       Get(merged.observations[j], "source", None) \in MergedSourceLabels
  /\ ConfidenceReturned =>
       \A j \in 1..Len(merged.observations) :
         (\/ merged.observations[j].confidence = 90
          \/ Contains(merged.observations[j].confidence_reason, "Multiple sources agree")) =>
           /\ \E n \in CombinedInto(j) : FromInspection(n)
           /\ \E n \in CombinedInto(j) : ~FromInspection(n)

\* an inspection finding that carried two source labels of the extractor
\* and a thermal finding were combined and scored 0.9
C23_Witness ==
  /\ ConfidenceReturned
  /\ Len(merged.observations) = 1
  /\ Len(inspection_data.observations) = 1
  /\ Cardinality(_sources(inspection_data.observations[1])) = 2
  /\ CombinedInto(1) = {1, 2}
  /\ FromInspection(1) /\ ~FromInspection(2)
  /\ merged.observations[1].source = "Inspection Report; Thermal Report"
  /\ merged.observations[1].confidence = 90

\* two inspection findings, one of them with two source labels of the
\* extractor, were combined and scored 0.7
C23_WitnessOneDocument ==
  /\ ConfidenceReturned
  /\ Len(merged.observations) = 1
  /\ thermal_data.observations = <<>>
  /\ Cardinality(_sources(inspection_data.observations[1])) = 2
  /\ CombinedInto(1) = {1, 2}
  /\ merged.observations[1].description # inspection_data.observations[1].description
  /\ merged.observations[1].source = "Inspection Report"
  /\ merged.observations[1].confidence = 70


(***************************************************************************)
(* Properties of call_llm (specification SpecCallLlmFair)                  *)
(***************************************************************************)
\* the message is that of a quota or rate-limit error
QuotaMessage(msg) ==
  \E mark \in {"429", "resource_exhausted", "quota", "rate limit"} : Contains(Lower(msg), mark)

\* call_llm has returned or raised
CallEnded == pc \in {"returned", "raised"}

\* this step is an API attempt that fails
AttemptFails == pc = "attempt" /\ api_attempts' = api_attempts + 1 /\ pc' # "returned"

\* C24: call_llm makes at most 3 API attempts per call and always
\* terminates: it retries, after a wait, only when an attempt fails with a
\* quota or rate-limit error and fewer than 2 retries have been used; a
\* non-quota error propagates at once with no retry; a third consecutive
\* quota error raises a RuntimeError describing the quota failure; and the
\* first attempt that gets a response returns at once, possibly the empty
\* string, with no further attempt.
C24_BoundedRetries ==
  /\ [][/\ api_attempts' <= 3
        /\ api_attempts' \in {api_attempts, api_attempts + 1}
        /\ (api_attempts' # api_attempts /\ pc' = "attempt") =>
             /\ AttemptFails
             /\ QuotaMessage(last_error')
             /\ attempt < 2
             /\ attempt' = attempt + 1
             /\ slept' > slept
        /\ slept' # slept => (api_attempts' # api_attempts /\ pc' = "attempt")
        /\ (AttemptFails /\ ~QuotaMessage(last_error')) =>
             /\ pc' = "raised"
             /\ raised' \in {"ServerError", "ClientError", "ValueError"}
             /\ api_attempts' = attempt + 1
        /\ (AttemptFails /\ QuotaMessage(last_error') /\ attempt < 2) => pc' = "attempt"
        /\ (AttemptFails /\ QuotaMessage(last_error') /\ attempt >= 2) =>
             /\ pc' = "raised"
             /\ raised' = "RuntimeError: Gemini API quota exceeded"
             /\ api_attempts' = 3
        /\ pc' = "returned" =>
             /\ pc \in {"attempt", "returned"}
             /\ response' \notin {None}
             /\ raised' = None
        /\ CallEnded => UNCHANGED <<api_attempts, slept, pc, response, raised>>]_vars
  /\ <>CallEnded

\* the third consecutive quota error ended the call with the RuntimeError
\* after two waits
C24_Witness ==
  /\ pc = "raised"
  /\ raised = "RuntimeError: Gemini API quota exceeded"
  /\ api_attempts = 3
  /\ attempt = 2
  /\ slept = 130

\* the call returned the empty string at the second attempt, after one wait
C24_WitnessEmptyReturn ==
  /\ pc = "returned"
  /\ response = ""
  /\ api_attempts = 2
  /\ slept = 65

=============================================================================
